---- MODULE Spec2Model ----
(***************************************************************************)
(* vaayu: parallel, resumable, verified file transfer over SFTP.           *)
(*                                                                         *)
(* The model follows src/vaayu/transfer.py (TransferManager and its three  *)
(* per-file units), src/vaayu/utils.py (async_retry, default_concurrency,  *)
(* atomic_temp_name, Stats) and the parts of src/vaayu/ssh_client.py the   *)
(* units call.  One step of the model is the code a coroutine runs between *)
(* two awaits.                                                             *)
(*                                                                         *)
(* Scaling.  One model byte stands for 512 KiB, so CHUNK_SIZE (1 MiB) is 2 *)
(* model bytes.  Delays are counted in tenths of a second, so the 10.0 s   *)
(* cap is 100 and the default back-off of 0.5 s is 5.                      *)
(***************************************************************************)
EXTENDS Integers, Sequences, FiniteSets, TLC

\* ---------------------------------------------------------------- bounds
MaxUnits == 2          \* longest list of transfer pairs
MaxLen == 3            \* longest source file of a one-pair run, in model bytes
MaxRetries == 1        \* largest opts.retries of a one-pair run
MaxCallers == 2        \* coroutines that call one SSHClient
MaxConns == 2          \* connections one SSHClient is followed through
MaxArgs == 5           \* longest command line, in arguments
MaxEvents == 4         \* file system events one _EventBatcher is followed through
MaxClock == 6          \* latest reading of time.time() by an _EventBatcher
MaxDepth == 2          \* most components of a path given to makedirs
MaxPathLen == 2        \* longest path given to _remote_sha256, in characters

\* ------------------------------------------------------ program constants
CHUNK_SIZE == 2        \* utils.py:10, 1 MiB in model bytes
MAX_DELAY == 100       \* transfer.py:119, 10.0 s in tenths of a second
DEBOUNCE_S == 2        \* watch.py:10, 0.5 s in quarter seconds

\* ------------------------------------------------------------ input sets
TransferOps == {"send", "get", "relay"}
ParallelChoices == {0, 1, 2}         \* 0 stands for opts.parallel = None
CpuCounts == {2}                     \* os.cpu_count(); 0 stands for None
DefaultCpuCounts == {0, 1, 2, 15, 16, 17, 64} \* os.cpu_count() of the runs without opts.parallel
BackoffChoices == {5, 200}           \* 0.5 s (the default) and 20 s
RetryBackoffs == {1, 5, 30, 60, 200} \* base_delay of async_retry
ManyRetries == {0, 1}                \* opts.retries of the runs with several pairs

VARIABLES
  op,          \* the entry point that was called
  opts,        \* TransferOptions: parallel, retries, backoff, verify
  cpu,         \* os.cpu_count()
  files,       \* the list of (src, dst) pairs; src is the source's content
  part,        \* dst -> the file at dst + ".part"
  dest,        \* dst -> the file at dst
  renameReplaces, \* does the SFTP server's rename replace an existing target
  semaphore,   \* value of the asyncio.Semaphore
  tasks,       \* number of tasks created by the submission loop
  mainpc,      \* position of the transfer method's own coroutine
  awaiting,    \* index of the task the method awaits
  pc,          \* unit -> position of the unit
  attempt,     \* unit -> attempt
  offset,      \* unit -> offset
  lpos,        \* unit -> position of the handle the unit reads from
  wpos,        \* unit -> position of the handle the unit writes to
  wmode,       \* unit -> mode the .part was opened with
  stats,       \* Stats: files, bytes, retries
  renamed,     \* unit -> the Publish rename returned to the unit
  slept,       \* unit -> the delays the unit has slept, in order
  rd,          \* unit -> source positions read in the current attempt
  wr,          \* unit -> .part positions written in the current attempt
  part0,       \* dst -> the .part file when the method was called
  dest0,       \* dst -> the destination file when the method was called
  r_pc,        \* async_retry: position
  r_attempt,   \* async_retry: attempt
  r_calls,     \* async_retry: number of calls of fn so far
  r_slept,     \* async_retry: the delays slept, in order
  r_log,       \* async_retry: how each call of fn ended, in order
  r_result,    \* async_retry: what the call returned or raised
  client,      \* SSHClient: _conn and _sftp (0 stands for None)
  ssh,         \* asyncssh: the open connections and SFTP channels, connections made
  closed,      \* SSHClient: a close() that closed a connection has returned
  caller,      \* coroutine -> its position in a call of the SSHClient
  remote,      \* _remote_sha256: command -> what the remote host answers
  sha,         \* _remote_sha256: next command, commands run, result
  sop,         \* a call of an SFTP operation of the SSHClient and its result
  cli,         \* main: argv, the outcome of the command, the value returned
  watch,       \* _EventBatcher: _last, _paths, the clock, events and batches so far
  mkd,         \* SSHClient.makedirs: the path, the mkdir calls made, the remote directories
  cmdl         \* _remote_sha256: the path and the command lines built for it so far

cfgvars == <<op, opts, cpu, files, renameReplaces, part0, dest0>>
fsvars == <<part, dest>>
mainvars == <<semaphore, tasks, mainpc, awaiting>>
unitvars == <<pc, attempt, offset, lpos, wpos, wmode, renamed, slept, rd, wr>>
retryvars == <<r_pc, r_attempt, r_calls, r_slept, r_log, r_result>>
sessvars == <<client, ssh, closed, caller>>
shavars == <<remote, sha>>
latevars == <<watch, mkd, cmdl>>
othervars == <<sessvars, shavars, sop, cli, latevars>>
vars == <<cfgvars, fsvars, mainvars, unitvars, stats, retryvars, othervars>>

\* ----------------------------------------------------------------- files
\* What a call gave back: nothing yet, a value, or an error that was raised.
NoResult == [kind |-> "none", what |-> <<>>]
Value(v) == [kind |-> "value", what |-> v]
Error(e) == [kind |-> "error", what |-> e]

NoFile == [ex |-> FALSE, data |-> <<>>]
File(d) == [ex |-> TRUE, data |-> d]

Min(a, b) == IF a < b THEN a ELSE b
Max(a, b) == IF a < b THEN b ELSE a

RECURSIVE Pow2(_)
Pow2(n) == IF n <= 0 THEN 1 ELSE 2 * Pow2(n - 1)

\* The source of the given length: bytes 1, 2, 1, 2, ...
SrcOfLen(n) == [i \in 1..n |-> ((i - 1) % 2) + 1]

\* What a read of at most CHUNK_SIZE bytes at position p returns.
ReadChunk(data, p) ==
  IF p >= Len(data) THEN <<>> ELSE SubSeq(data, p + 1, Min(Len(data), p + CHUNK_SIZE))

\* A write of chunk at position p: bytes before p stay, a gap is filled with 0.
WriteAt(data, p, chunk) ==
  LET n == Max(Len(data), p + Len(chunk))
  IN [i \in 1..n |->
        IF i > p /\ i <= p + Len(chunk) THEN chunk[i - p]
        ELSE IF i <= Len(data) THEN data[i]
        ELSE 0]

\* sha256_file / the remote hashing tools: a digest without collisions.
sha256_file(f) == <<Len(f.data)>> \o f.data

\* ----------------------------------------------------------------- utils
default_concurrency_Uncapped(c) ==
  LET n == IF c = 0 THEN 4 ELSE c
  IN Max(2, n * 2)

default_concurrency(c) ==
  LET n == IF c = 0 THEN 4 ELSE c
  IN Max(2, Min(32, n * 2))

\* parallel = opts.parallel or default_concurrency()
Parallel == IF opts.parallel # 0 THEN opts.parallel ELSE default_concurrency(cpu)

\* min(backoff * 2 ** (attempt - 1), 10.0)
RetryDelay_Uncapped(backoff, a) == backoff * Pow2(a - 1)

RetryDelay(backoff, a) == Min(backoff * Pow2(a - 1), MAX_DELAY)

\* if attempt > opts.retries: raise
Exhausted_Sooner(a, retries) == a >= retries

Exhausted(a, retries) == a > retries

Units == 1..Len(files)
Src(u) == files[u].src
Dst(u) == files[u].dst
Total(u) == Len(Src(u))

Terminal == {"done", "failed", "cancelled"}
InFlight == {u \in Units : pc[u] \notin ({"unspawned"} \cup Terminal)}

\* ------------------------------------------------------------------ Init
\* The .part a run may find: absent, empty, a proper prefix of the source, the
\* full source, longer than the source, or unrelated bytes.
PartStates(src) ==
  {NoFile} \cup {File(SubSeq(src, 1, k)) : k \in 0..Len(src)}
    \cup {File(src \o <<1>>), File(<<2>>)}

\* The destination a run may find: absent, or a version published earlier.
OldVersion == File(<<2, 2>>)
DestStates == {NoFile, OldVersion}

InitUnits ==
  /\ semaphore = Parallel
  /\ tasks = 0
  /\ mainpc = "submit"
  /\ awaiting = 1
  /\ pc = [u \in Units |-> "unspawned"]
  /\ attempt = [u \in Units |-> 0]
  /\ offset = [u \in Units |-> 0]
  /\ lpos = [u \in Units |-> 0]
  /\ wpos = [u \in Units |-> 0]
  /\ wmode = [u \in Units |-> "wb"]
  /\ renamed = [u \in Units |-> FALSE]
  /\ slept = [u \in Units |-> <<>>]
  /\ rd = [u \in Units |-> {}]
  /\ wr = [u \in Units |-> {}]
  /\ stats = [files |-> 0, bytes |-> 0, retries |-> 0]
  /\ part0 = part
  /\ dest0 = dest

InitRetryIdle ==
  /\ r_pc = "idle"
  /\ r_attempt = 0
  /\ r_calls = 0
  /\ r_slept = <<>>
  /\ r_log = <<>>
  /\ r_result = NoResult

\* SSHClient.__init__: self._conn = None; self._sftp = None
NewClient == [conn |-> 0, sftp |-> 0]

Callers == 1..MaxCallers

InitSessionIdle ==
  /\ client = NewClient
  /\ ssh = [conns |-> {}, chans |-> {}, made |-> 0]
  /\ closed = FALSE
  /\ caller = [c \in Callers |-> [pc |-> "idle", conn |-> 0, last |-> "none"]]

InitShaIdle ==
  /\ remote = <<>>
  /\ sha = [state |-> "idle", next |-> 1, ran |-> <<>>, result |-> NoResult]

InitSopIdle == sop = [state |-> "idle", name |-> "none", under |-> <<>>, result |-> NoResult]

\* main was not called: no command line, no value returned (code -1)
InitCliIdle ==
  cli = [state |-> "idle", argv |-> <<>>, code |-> -1, helped |-> FALSE,
         parsed |-> "none", fn |-> "none", run |-> "none", transfer |-> "none"]

\* No _EventBatcher was made.
InitWatchIdle ==
  watch = [state |-> "idle", last |-> 0, paths |-> {}, now |-> 0,
           events |-> <<>>, batches |-> <<>>]

\* makedirs was not called.
InitMkdIdle ==
  mkd = [state |-> "idle", path |-> [abs |-> TRUE, comps |-> <<>>], i |-> 1,
         calls |-> <<>>, dirs |-> {}]

\* _remote_sha256 has built no command.
InitCmdIdle == cmdl = [path |-> <<>>, cmds |-> <<>>]

\* No transfer method is running.
InitNoTransfer ==
  /\ opts = [parallel |-> 1, retries |-> 0, backoff |-> 5, verify |-> TRUE]
  /\ cpu \in CpuCounts
  /\ files = <<>>
  /\ part = <<>>
  /\ dest = <<>>
  /\ renameReplaces = TRUE
  /\ InitUnits

\* One pair, every state of its source, its .part and its destination.
InitOne ==
  /\ op \in TransferOps
  /\ opts \in [parallel : {1}, retries : 0..MaxRetries,
               backoff : BackoffChoices, verify : BOOLEAN]
  /\ cpu \in CpuCounts
  /\ \E n \in 0..MaxLen : files = <<[src |-> SrcOfLen(n), dst |-> 1]>>
  /\ part \in [{1} -> PartStates(files[1].src)]
  /\ dest \in [{1} -> DestStates]
  /\ renameReplaces \in (IF op # "get" /\ dest[1].ex THEN BOOLEAN ELSE {TRUE})
  /\ InitUnits
  /\ InitRetryIdle
  /\ InitSessionIdle
  /\ InitShaIdle
  /\ InitSopIdle
  /\ InitCliIdle
  /\ InitWatchIdle
  /\ InitMkdIdle
  /\ InitCmdIdle

\* Several pairs with distinct destinations, every opts.parallel, the default
\* back-off and verification, new files; the
\* sources are 1, 2, 1, ... bytes long.
InitMany ==
  /\ op \in TransferOps
  /\ opts \in [parallel : ParallelChoices, retries : ManyRetries,
               backoff : {5}, verify : {TRUE}]
  /\ cpu \in CpuCounts
  /\ \E n \in 2..MaxUnits :
       files = [u \in 1..n |-> [src |-> SrcOfLen(((u - 1) % 2) + 1), dst |-> u]]
  /\ part = [d \in Units |-> NoFile]
  /\ dest = [d \in Units |-> NoFile]
  /\ renameReplaces = TRUE
  /\ InitUnits
  /\ InitRetryIdle
  /\ InitSessionIdle
  /\ InitShaIdle
  /\ InitSopIdle
  /\ InitCliIdle
  /\ InitWatchIdle
  /\ InitMkdIdle
  /\ InitCmdIdle

\* Two pairs, opts.parallel not set, on machines of every size.
InitDefault ==
  /\ op \in TransferOps
  /\ opts = [parallel |-> 0, retries |-> 0, backoff |-> 5, verify |-> TRUE]
  /\ cpu \in DefaultCpuCounts
  /\ files = [u \in 1..2 |-> [src |-> SrcOfLen(1), dst |-> u]]
  /\ part = [d \in Units |-> NoFile]
  /\ dest = [d \in Units |-> NoFile]
  /\ renameReplaces = TRUE
  /\ InitUnits
  /\ InitRetryIdle
  /\ InitSessionIdle
  /\ InitShaIdle
  /\ InitSopIdle
  /\ InitCliIdle
  /\ InitWatchIdle
  /\ InitMkdIdle
  /\ InitCmdIdle

\* async_retry(fn, retries=opts.retries, base_delay=opts.backoff)
InitRetry ==
  /\ op = "async_retry"
  /\ opts \in [parallel : {1}, retries : 0..(MaxRetries + 2),
               backoff : RetryBackoffs, verify : {TRUE}]
  /\ cpu \in CpuCounts
  /\ files = <<>>
  /\ part = <<>>
  /\ dest = <<>>
  /\ renameReplaces = TRUE
  /\ InitUnits
  /\ r_pc = "call"
  /\ r_attempt = 0
  /\ r_calls = 0
  /\ r_slept = <<>>
  /\ r_log = <<>>
  /\ r_result = NoResult
  /\ InitSessionIdle
  /\ InitShaIdle
  /\ InitSopIdle
  /\ InitCliIdle
  /\ InitWatchIdle
  /\ InitMkdIdle
  /\ InitCmdIdle

\* One SSHClient that has just been constructed, for the callers to use.
InitSession ==
  /\ op = "session"
  /\ InitNoTransfer
  /\ InitRetryIdle
  /\ InitSessionIdle
  /\ InitShaIdle
  /\ InitSopIdle
  /\ InitCliIdle
  /\ InitWatchIdle
  /\ InitMkdIdle
  /\ InitCmdIdle

\* The remote host answers each of the four commands with an exit status and
\* a standard output.  A string is the sequence of its characters; "D" stands
\* for the 64 hex digits of the digest and "p" for the path.
Commands == <<"sha256sum", "shasum -a 256", "python3 -c", "python -c">>
ExitStatuses == {0, 1}
ToolOutputs == {<<>>, <<"\n">>, <<"D", " ", " ", "p", "\n">>}
PythonOutputs == {<<>>, <<"D", "\n">>}
Outputs(n) == IF n <= 2 THEN ToolOutputs ELSE PythonOutputs

InitSha ==
  /\ op = "remote_sha256"
  /\ InitNoTransfer
  /\ InitRetryIdle
  /\ InitSessionIdle
  /\ remote \in {r \in [1..4 -> [exit_status : ExitStatuses,
                                  stdout : ToolOutputs \cup PythonOutputs]] :
                   \A n \in 1..4 : r[n].stdout \in Outputs(n)}
  /\ sha = [state |-> "running", next |-> 1, ran |-> <<>>, result |-> NoResult]
  /\ InitSopIdle
  /\ InitCliIdle
  /\ InitWatchIdle
  /\ InitMkdIdle
  /\ InitCmdIdle

\* A call of one SFTP operation of the SSHClient.  under is how the calls it
\* makes on self.sftp end, in order: "ok", or the exception raised ("RuntimeError"
\* is the one of the sftp property when the client is not connected).  makedirs
\* is called with a path of two components, the others make one call.
SftpOps == {"stat", "makedirs", "open_remote", "rename", "remove", "listdir"}
Outcomes == {"ok", "FileNotFoundError", "SFTPNoSuchFile", "SFTPFailure",
             "SFTPPermissionDenied", "SFTPConnectionLost", "RuntimeError"}

InitSop ==
  /\ op = "session_op"
  /\ InitNoTransfer
  /\ InitRetryIdle
  /\ InitSessionIdle
  /\ InitShaIdle
  /\ \E n \in SftpOps :
       \E u \in (IF n = "makedirs" THEN [1..2 -> Outcomes] ELSE [1..1 -> Outcomes]) :
         sop = [state |-> "called", name |-> n, under |-> u, result |-> NoResult]
  /\ InitCliIdle
  /\ InitWatchIdle
  /\ InitMkdIdle
  /\ InitCmdIdle

\* ------------------------------------------------- the lists of pairs
\* A path is the sequence of its components.  The files of the model, on the
\* local side of send and on the remote side of get: a/f, b/f and a/d/f.
Tree == {<<"a", "f">>, <<"b", "f">>, <<"a", "d", "f">>}

\* What the caller may name: the files a/f and b/f and the directory a/d.
InputPaths == {<<"a", "f">>, <<"b", "f">>, <<"a", "d">>}

IsPrefixPath(p, q) == Len(p) <= Len(q) /\ SubSeq(q, 1, Len(p)) = p

\* os.path.isdir(p); st.permissions & 0o040000
isdir(p) == \E q \in Tree : Len(q) > Len(p) /\ IsPrefixPath(p, q)

\* os.path.basename(p)
basename(p) == <<p[Len(p)]>>

\* os.path.relpath(src, p)
relpath(q, p) == SubSeq(q, Len(p) + 1, Len(q))

\* os.path.join(a, b)
join(a, b) == a \o b

\* The bytes of a file: one byte under a, two under b.
Content(q) == IF q[1] = "a" THEN SrcOfLen(1) ELSE SrcOfLen(2)

RECURSIVE SeqOfSet(_)
SeqOfSet(S) ==
  IF S = {} THEN <<>>
  ELSE LET x == CHOOSE y \in S : TRUE IN <<x>> \o SeqOfSet(S \ {x})

\* os.walk(p): the files below p;   _walk_remote: listdir, recursively
walk(p) == SeqOfSet({q \in Tree : Len(q) > Len(p) /\ IsPrefixPath(p, q)})

\* send_local_to_remote: the pairs of one local path
\*   directory: dst = join(remote_dir, basename(p), rel) for every file below it
\*   file:      dst = join(remote_dir, basename(p))
SendPairs(p, remote_dir) ==
  IF isdir(p)
    THEN LET w == walk(p)
         IN [i \in 1..Len(w) |->
               [path |-> w[i], src |-> Content(w[i]),
                dst |-> join(join(remote_dir, basename(p)), relpath(w[i], p))]]
    ELSE <<[path |-> p, src |-> Content(p), dst |-> join(remote_dir, basename(p))]>>

\* get_remote_to_local, _walk_remote: dst = join(local_dir, rel or basename(base))
\* where rel is the path below the directory that was named
GetPairs(p, local_dir) ==
  IF isdir(p)
    THEN LET w == walk(p)
         IN [i \in 1..Len(w) |->
               [path |-> w[i], src |-> Content(w[i]),
                dst |-> join(local_dir, relpath(w[i], p))]]
    ELSE <<[path |-> p, src |-> Content(p), dst |-> join(local_dir, basename(p))]>>

\* for p in local_paths: ... files.append(...)
RECURSIVE PairsOf(_, _, _)
PairsOf(o, ps, dir) ==
  IF ps = <<>> THEN <<>>
  ELSE (IF o = "send" THEN SendPairs(Head(ps), dir) ELSE GetPairs(Head(ps), dir))
         \o PairsOf(o, Tail(ps), dir)

\* cmd_relay: pairs = [(s, d) for s, d in zip(args.src_paths, args.dst_paths)]
zip(ss, ds) ==
  [i \in 1..Min(Len(ss), Len(ds)) |->
     [path |-> ss[i], src |-> Content(ss[i]), dst |-> ds[i]]]

\* build_parser: src_paths and dst_paths are both nargs="+", so argparse gives
\* dst_paths the last of the positional arguments and src_paths the others.
src_paths(args) == SubSeq(args, 1, Len(args) - 1)
dst_paths(args) == <<args[Len(args)]>>

RelayArgs == {<<"a", "f">>, <<"b", "f">>}

\* cmd_relay is running with these words for src_paths and dst_paths
RelayCli(args) ==
  [state |-> "running", argv |-> args, code |-> -1, helped |-> FALSE,
   parsed |-> "args", fn |-> "cmd_relay", run |-> "none", transfer |-> "none"]

\* A transfer method is called with the paths of a command line: send and get
\* with two distinct paths and one target directory, relay with two to four
\* positional paths after the two hosts.
InitPaths ==
  /\ op \in TransferOps
  /\ opts \in [parallel : {1, 2}, retries : {1}, backoff : {5}, verify : {TRUE}]
  /\ cpu \in CpuCounts
  /\ \/ /\ op \in {"send", "get"}
        /\ \E p1, p2 \in InputPaths :
             /\ p1 # p2
             /\ files = PairsOf(op, <<p1, p2>>, <<"r">>)
     \/ /\ op = "relay"
        /\ \E n \in 2..4 : \E args \in [1..n -> RelayArgs] :
             /\ files = zip(src_paths(args), dst_paths(args))
             /\ cli = RelayCli(args)
  /\ op \in {"send", "get"} => InitCliIdle
  /\ part = [d \in {files[u].dst : u \in Units} |-> NoFile]
  /\ dest = [d \in {files[u].dst : u \in Units} |-> NoFile]
  /\ renameReplaces = TRUE
  /\ InitUnits
  /\ InitRetryIdle
  /\ InitSessionIdle
  /\ InitShaIdle
  /\ InitSopIdle
  /\ InitWatchIdle
  /\ InitMkdIdle
  /\ InitCmdIdle

\* _EventBatcher(on_batch): _last = 0.0 and _paths = set(); time.time() is the
\* time since 1970, far more than debounce_s.
Epoch == DEBOUNCE_S + 1

InitWatch ==
  /\ op = "watch"
  /\ InitNoTransfer
  /\ InitRetryIdle
  /\ InitSessionIdle
  /\ InitShaIdle
  /\ InitSopIdle
  /\ InitCliIdle
  /\ watch = [state |-> "watching", last |-> 0, paths |-> {}, now |-> Epoch,
              events |-> <<>>, batches |-> <<>>]
  /\ InitMkdIdle
  /\ InitCmdIdle

\* A path is absolute or relative and has components; a relative path names a
\* directory below the directory the SFTP session starts in (Home).  Before the
\* call the root and Home exist, and perhaps one more directory.
DirNames == {"h", "a"}
Home == <<"h">>
RemoteDirs == [abs : BOOLEAN, comps : UNION {[1..n -> DirNames] : n \in 0..MaxDepth}]
DirsBefore == {{<<>>, Home} \cup D : D \in {{}, {<<"a">>}, {<<"h", "a">>}}}

InitMakedirs ==
  /\ op = "makedirs"
  /\ InitNoTransfer
  /\ InitRetryIdle
  /\ InitSessionIdle
  /\ InitShaIdle
  /\ InitSopIdle
  /\ InitCliIdle
  /\ InitWatchIdle
  /\ \E path \in RemoteDirs : \E D \in DirsBefore :
       mkd = [state |-> "called", path |-> path, i |-> 1, calls |-> <<>>, dirs |-> D]
  /\ InitCmdIdle

\* _remote_sha256(client, path): a path is a sequence of characters, among them
\* the single quote and the space.
PathChars == {"a", "'", " "}
ShaPaths == UNION {[1..n -> PathChars] : n \in 1..MaxPathLen}

InitCommands ==
  /\ op = "commands"
  /\ InitNoTransfer
  /\ InitRetryIdle
  /\ InitSessionIdle
  /\ InitShaIdle
  /\ InitSopIdle
  /\ InitCliIdle
  /\ InitWatchIdle
  /\ InitMkdIdle
  /\ \E path \in ShaPaths : cmdl = [path |-> path, cmds |-> <<>>]

\* The process was started; main is about to be called with sys.argv[1:].
InitMain ==
  /\ op = "main"
  /\ InitNoTransfer
  /\ InitRetryIdle
  /\ InitSessionIdle
  /\ InitShaIdle
  /\ InitSopIdle
  /\ InitCliIdle
  /\ InitWatchIdle
  /\ InitMkdIdle
  /\ InitCmdIdle

Init == InitOne \/ InitMany \/ InitRetry \/ InitSession \/ InitSha \/ InitSop \/ InitMain
          \/ InitWatch \/ InitDefault \/ InitMakedirs \/ InitCommands

\* -------------------------------------------------- the submission loop
\* for pair in files: await semaphore.acquire(); tasks.append(create_task(...))
FirstPc == IF op = "get" THEN "mkdir" ELSE "prepare"

Spawn ==
  /\ semaphore' = semaphore - 1
  /\ tasks' = tasks + 1
  /\ pc' = [pc EXCEPT ![tasks + 1] = FirstPc]
  /\ mainpc' = IF tasks + 1 = Len(files) THEN "await" ELSE "submit"
  /\ UNCHANGED <<cfgvars, othervars, fsvars, awaiting, attempt, offset, lpos, wpos, wmode,
                 renamed, slept, rd, wr, stats, retryvars>>

\* await semaphore.acquire() goes on only with a permit to take
Acquirable_Always(sem) == TRUE

Acquirable(sem) == sem > 0

\* acquire() finds a permit and returns without suspending
Submit ==
  /\ mainpc = "submit"
  /\ tasks < Len(files)
  /\ Acquirable(semaphore)
  /\ Spawn

\* acquire() finds no permit: the loop is suspended until a release
SubmitBlock ==
  /\ mainpc = "submit"
  /\ tasks < Len(files)
  /\ ~Acquirable(semaphore)
  /\ mainpc' = "acquire"
  /\ UNCHANGED <<cfgvars, othervars, fsvars, semaphore, tasks, awaiting, unitvars, stats, retryvars>>

\* a release woke the loop: it takes the permit and creates the task
SubmitResume ==
  /\ mainpc = "acquire"
  /\ Acquirable(semaphore)
  /\ Spawn

\* for t in tasks: await t
AwaitTask_SkipsFailed ==
  /\ mainpc = "await"
  /\ awaiting <= Len(files)
  /\ pc[awaiting] \in {"done", "failed"}
  /\ awaiting' = awaiting + 1
  /\ mainpc' = IF awaiting = Len(files) THEN "returned" ELSE "await"
  /\ UNCHANGED <<cfgvars, othervars, fsvars, semaphore, tasks, unitvars, stats, retryvars>>

AwaitTask ==
  /\ mainpc = "await"
  /\ awaiting <= Len(files)
  /\ pc[awaiting] \in {"done", "failed"}
  /\ IF pc[awaiting] = "failed"
       THEN mainpc' = "raised" /\ awaiting' = awaiting
       ELSE /\ awaiting' = awaiting + 1
            /\ mainpc' = IF awaiting = Len(files) THEN "returned" ELSE "await"
  /\ UNCHANGED <<cfgvars, othervars, fsvars, semaphore, tasks, unitvars, stats, retryvars>>

\* The units run only while the method's coroutine is suspended.
MainSuspended == mainpc \in {"acquire", "await", "returned", "raised"}

\* _with_sem: finally: sem.release()
Release_Twice == semaphore' = semaphore + 2

Release == semaphore' = semaphore + 1

\* ------------------------------------------------ the per-file units
\* except Exception: if attempt > opts.retries: raise
\*                   await asyncio.sleep(min(opts.backoff * 2 ** (attempt - 1), 10.0))
\* a is the value of attempt in the attempt that raised.
Handler_OneAttemptMore(u, a) ==
  /\ attempt' = [attempt EXCEPT ![u] = a]
  /\ IF a > opts.retries + 1
       THEN /\ pc' = [pc EXCEPT ![u] = "failed"]
            /\ Release
            /\ slept' = slept
       ELSE /\ pc' = [pc EXCEPT ![u] = "sleep"]
            /\ semaphore' = semaphore
            /\ slept' = [slept EXCEPT ![u] = Append(@, RetryDelay(opts.backoff, a))]

Handler(u, a) ==
  /\ attempt' = [attempt EXCEPT ![u] = a]
  /\ IF Exhausted(a, opts.retries)
       THEN /\ pc' = [pc EXCEPT ![u] = "failed"]
            /\ Release
            /\ slept' = slept
       ELSE /\ pc' = [pc EXCEPT ![u] = "sleep"]
            /\ semaphore' = semaphore
            /\ slept' = [slept EXCEPT ![u] = Append(@, RetryDelay(opts.backoff, a))]

\* _download_one: os.makedirs(os.path.dirname(dst) or ".", exist_ok=True),
\* before the retry loop is entered.
Mkdir(u) ==
  /\ MainSuspended
  /\ pc[u] = "mkdir"
  /\ pc' = [pc EXCEPT ![u] = "prepare"]
  /\ UNCHANGED <<cfgvars, othervars, fsvars, mainvars, attempt, offset, lpos, wpos, wmode,
                 renamed, slept, rd, wr, stats, retryvars>>

\* os.makedirs raises: no handler encloses it, the unit ends and _with_sem releases.
MkdirFail(u) ==
  /\ MainSuspended
  /\ pc[u] = "mkdir"
  /\ pc' = [pc EXCEPT ![u] = "failed"]
  /\ Release
  /\ UNCHANGED <<cfgvars, othervars, fsvars, tasks, mainpc, awaiting, attempt, offset, lpos,
                 wpos, wmode, renamed, slept, rd, wr, stats, retryvars>>

\* offset = rstat.size if rstat else 0      (send, relay: stat of the .part)
\* offset = os.path.getsize(tmp) if os.path.exists(tmp) else 0         (get)
ResumeOffset_Zero(f) == 0

ResumeOffset(f) == IF f.ex THEN Len(f.data) ELSE 0

\* attempt += 1; Prepare: makedirs, tmp = atomic_temp_name(dst), offset
Prepare(u) ==
  /\ MainSuspended
  /\ pc[u] = "prepare"
  /\ attempt' = [attempt EXCEPT ![u] = @ + 1]
  /\ offset' = [offset EXCEPT ![u] = ResumeOffset(part[Dst(u)])]
  /\ pc' = [pc EXCEPT ![u] = "open"]
  /\ UNCHANGED <<cfgvars, othervars, fsvars, mainvars, lpos, wpos, wmode, renamed, slept,
                 rd, wr, stats, retryvars>>

\* mode = "r+b" if offset > 0 else "wb"     (send, relay)
\* "ab" if offset else "wb"                 (get)
OpenMode(o, off) ==
  IF o = "get" THEN (IF off # 0 THEN "ab" ELSE "wb")
  ELSE (IF off > 0 THEN "r+b" ELSE "wb")

\* if offset: seek(offset) on the handle read from (and, for send and relay, on
\* the handle written to; "ab" writes at the end of the file whatever the position)
SeekPos_None(off) == 0

SeekPos(off) == IF off # 0 THEN off ELSE 0

\* "wb" creates or truncates; "r+b" and "ab" keep the bytes that are there.
Opened(f, mode) == IF mode = "wb" THEN File(<<>>) ELSE File(f.data)

Open(u) ==
  /\ MainSuspended
  /\ pc[u] = "open"
  /\ LET mode == OpenMode(op, offset[u])
     IN /\ wmode' = [wmode EXCEPT ![u] = mode]
        /\ part' = [part EXCEPT ![Dst(u)] = Opened(@, mode)]
  /\ lpos' = [lpos EXCEPT ![u] = SeekPos(offset[u])]
  /\ wpos' = [wpos EXCEPT ![u] = SeekPos(offset[u])]
  /\ rd' = [rd EXCEPT ![u] = {}]
  /\ wr' = [wr EXCEPT ![u] = {}]
  /\ pc' = [pc EXCEPT ![u] = "copy"]
  /\ UNCHANGED <<cfgvars, othervars, dest, mainvars, attempt, offset, renamed, slept, stats,
                 retryvars>>

\* Where the next write lands.
WritePos(u) == IF wmode[u] = "ab" THEN Len(part[Dst(u)].data) ELSE wpos[u]

\* data = read(CHUNK_SIZE); await write(data)
CopyChunk(u) ==
  LET data == ReadChunk(Src(u), lpos[u])
      p == WritePos(u)
  IN /\ data # <<>>
     /\ part' = [part EXCEPT ![Dst(u)] = File(WriteAt(@.data, p, data))]
     /\ lpos' = [lpos EXCEPT ![u] = @ + Len(data)]
     /\ wpos' = [wpos EXCEPT ![u] = p + Len(data)]
     /\ rd' = [rd EXCEPT ![u] = @ \cup ((lpos[u] + 1)..(lpos[u] + Len(data)))]
     /\ wr' = [wr EXCEPT ![u] = @ \cup ((p + 1)..(p + Len(data)))]

Copy(u) ==
  /\ MainSuspended
  /\ pc[u] = "copy"
  /\ CopyChunk(u)
  /\ UNCHANGED <<cfgvars, othervars, dest, mainvars, pc, attempt, offset, wmode, renamed,
                 slept, stats, retryvars>>

\* The write reaches the file and the call raises all the same (a lost reply).
CopyLost(u) ==
  /\ MainSuspended
  /\ pc[u] = "copy"
  /\ CopyChunk(u)
  /\ Handler(u, attempt[u])
  /\ UNCHANGED <<cfgvars, othervars, dest, tasks, mainpc, awaiting, offset, wmode, renamed,
                 stats, retryvars>>

\* if not data: break; the handles are closed; if opts.verify: ...
AfterCopy(verify) == IF verify THEN "verify" ELSE "publish"

\* data = read(CHUNK_SIZE); if not data: break
EndOfSource_FirstChunk(u) == lpos[u] > 0 \/ Total(u) = 0

EndOfSource(u) == ReadChunk(Src(u), lpos[u]) = <<>>

CopyEOF(u) ==
  /\ MainSuspended
  /\ pc[u] = "copy"
  /\ EndOfSource(u)
  /\ pc' = [pc EXCEPT ![u] = AfterCopy(opts.verify)]
  /\ UNCHANGED <<cfgvars, othervars, fsvars, mainvars, attempt, offset, lpos, wpos, wmode,
                 renamed, slept, rd, wr, stats, retryvars>>

\* if local_hash != remote_hash: raise RuntimeError("hash mismatch ...")
HashesMatch_Unchecked(u) == TRUE

HashesMatch(u) == sha256_file(File(Src(u))) = sha256_file(part[Dst(u)])

Verify(u) ==
  /\ MainSuspended
  /\ pc[u] = "verify"
  /\ IF HashesMatch(u)
       THEN /\ pc' = [pc EXCEPT ![u] = "publish"]
            /\ UNCHANGED <<semaphore, attempt, slept>>
       ELSE Handler(u, attempt[u])
  /\ UNCHANGED <<cfgvars, othervars, fsvars, tasks, mainpc, awaiting, offset, lpos, wpos,
                 wmode, renamed, rd, wr, stats, retryvars>>

\* rename(tmp, dst): os.replace always replaces dst; the SFTP rename replaces an
\* existing dst on some servers and fails on the others.
RenameWorks(u) == op = "get" \/ renameReplaces \/ ~dest[Dst(u)].ex

Renamed_Copy(u) ==
  /\ dest' = [dest EXCEPT ![Dst(u)] = part[Dst(u)]]
  /\ part' = part

Renamed(u) ==
  /\ dest' = [dest EXCEPT ![Dst(u)] = part[Dst(u)]]
  /\ part' = [part EXCEPT ![Dst(u)] = NoFile]

\* if attempt > 1: stats.retries += attempt - 1
RetriesInc_Attempts(a) == a

RetriesInc(a) == IF a > 1 THEN a - 1 ELSE 0

\* stats.bytes += total                       (send)
\* stats.bytes += os.path.getsize(dst)        (get; nothing if it raises)
\* stats.bytes += int(stat(dst).size or 0)    (relay; nothing if it raises)
BytesInc(o, total, size, ok) ==
  IF o = "send" THEN total ELSE IF ok THEN size ELSE 0

\* stats.files += 1
FilesInc_Lost(n) == n

FilesInc(n) == n + 1

\* Publish: the rename; then the statements up to the unit's next await.
Publish(u) ==
  /\ MainSuspended
  /\ pc[u] = "publish"
  /\ IF RenameWorks(u)
       THEN /\ Renamed(u)
            /\ renamed' = [renamed EXCEPT ![u] = TRUE]
            /\ UNCHANGED <<attempt, slept>>
            /\ IF op = "relay"
                 THEN /\ stats' = [stats EXCEPT !.files = FilesInc(@)]
                      /\ pc' = [pc EXCEPT ![u] = "stat_dst"]
                      /\ semaphore' = semaphore
                 ELSE /\ \E ok \in (IF op = "get" THEN BOOLEAN ELSE {TRUE}) :
                           stats' = [files |-> FilesInc(stats.files),
                                     bytes |-> stats.bytes
                                       + BytesInc(op, Total(u), Len(part[Dst(u)].data), ok),
                                     retries |-> stats.retries + RetriesInc(attempt[u])]
                      /\ pc' = [pc EXCEPT ![u] = "done"]
                      /\ Release
       ELSE /\ Handler(u, attempt[u])
            /\ UNCHANGED <<fsvars, renamed, stats>>
  /\ UNCHANGED <<cfgvars, othervars, tasks, mainpc, awaiting, offset, lpos, wpos, wmode, rd,
                 wr, retryvars>>

\* The server renames and the call raises all the same (a lost reply).
PublishLost(u) ==
  /\ MainSuspended
  /\ op # "get"
  /\ pc[u] = "publish"
  /\ RenameWorks(u)
  /\ Renamed(u)
  /\ Handler(u, attempt[u])
  /\ UNCHANGED <<cfgvars, othervars, tasks, mainpc, awaiting, offset, lpos, wpos, wmode,
                 renamed, rd, wr, stats, retryvars>>

\* _relay_one: sz = (await dst_client.stat(dst)).size, inside try/except: pass
StatDst(u) ==
  /\ MainSuspended
  /\ pc[u] = "stat_dst"
  /\ \E ok \in BOOLEAN :
       stats' = [stats EXCEPT
                   !.bytes = @ + BytesInc(op, Total(u), Len(dest[Dst(u)].data), ok),
                   !.retries = @ + RetriesInc(attempt[u])]
  /\ pc' = [pc EXCEPT ![u] = "done"]
  /\ Release
  /\ UNCHANGED <<cfgvars, othervars, fsvars, tasks, mainpc, awaiting, attempt, offset, lpos,
                 wpos, wmode, renamed, slept, rd, wr, retryvars>>

\* An awaited call of the attempt raises before it has had any effect.
FaultPcs == {"prepare", "open", "copy", "verify", "publish"}

Fault(u) ==
  /\ MainSuspended
  /\ pc[u] \in FaultPcs
  /\ Handler(u, IF pc[u] = "prepare" THEN attempt[u] + 1 ELSE attempt[u])
  /\ UNCHANGED <<cfgvars, othervars, fsvars, tasks, mainpc, awaiting, offset, lpos, wpos,
                 wmode, renamed, rd, wr, stats, retryvars>>

\* asyncio.sleep returns: the while loop starts the next attempt.
Wake(u) ==
  /\ MainSuspended
  /\ pc[u] = "sleep"
  /\ pc' = [pc EXCEPT ![u] = "prepare"]
  /\ UNCHANGED <<cfgvars, othervars, fsvars, mainvars, attempt, offset, lpos, wpos, wmode,
                 renamed, slept, rd, wr, stats, retryvars>>

\* The method has raised: when it ran under asyncio.run, the loop's shutdown
\* cancels the tasks still pending (CancelledError is no Exception: the unit's
\* handlers let it through, _with_sem releases).
Cancel(u) ==
  /\ mainpc = "raised"
  /\ u \in InFlight
  /\ pc' = [pc EXCEPT ![u] = "cancelled"]
  /\ Release
  /\ UNCHANGED <<cfgvars, othervars, fsvars, tasks, mainpc, awaiting, attempt, offset, lpos,
                 wpos, wmode, renamed, slept, rd, wr, stats, retryvars>>

\* ------------------------------------------------------------ async_retry
\* What the n-th call of fn returns, or the error it raises: the n-th one.
FnResult(n) == n

\* return await fn()
RetryCallOk ==
  /\ r_pc = "call"
  /\ r_calls' = r_calls + 1
  /\ r_log' = Append(r_log, "value")
  /\ r_result' = Value(FnResult(r_calls + 1))
  /\ r_pc' = "returned"
  /\ UNCHANGED <<cfgvars, othervars, fsvars, mainvars, unitvars, stats, r_attempt, r_slept>>

\* except exc_types: attempt += 1; if attempt > retries: raise
\*                   delay = base_delay * 2 ** (attempt - 1); sleep(min(delay, 10.0))
RetryCallFails ==
  /\ r_pc = "call"
  /\ r_calls' = r_calls + 1
  /\ r_log' = Append(r_log, "error")
  /\ r_attempt' = r_attempt + 1
  /\ IF Exhausted(r_attempt + 1, opts.retries)
       THEN /\ r_pc' = "raised"
            /\ r_slept' = r_slept
            /\ r_result' = Error(FnResult(r_calls + 1))
       ELSE /\ r_pc' = "sleep"
            /\ r_slept' = Append(r_slept, RetryDelay(opts.backoff, r_attempt + 1))
            /\ r_result' = r_result
  /\ UNCHANGED <<cfgvars, othervars, fsvars, mainvars, unitvars, stats>>

RetryWake ==
  /\ r_pc = "sleep"
  /\ r_pc' = "call"
  /\ UNCHANGED <<cfgvars, othervars, fsvars, mainvars, unitvars, stats, r_attempt,
                 r_calls, r_slept, r_log, r_result>>

\* -------------------------------------------------------------- SSHClient
\* One SSHClient, called by the coroutines of Callers.  A connection is named
\* by its number; the SFTP channel of connection k is named k as well.
Idle(c) == op = "session" /\ caller[c].pc = "idle"

\* The calls of asyncssh.connect that have not returned yet.
Connecting == {c \in Callers : caller[c].pc = "connect"}

\* connect(): self._conn = await asyncssh.connect(...)      the call is made
BeginConnect(c, name) ==
  /\ ssh.made + Cardinality(Connecting) < MaxConns
  /\ caller' = [caller EXCEPT ![c] = [pc |-> "connect", conn |-> 0, last |-> name]]
  /\ UNCHANGED <<client, ssh, closed>>

Connect(c) ==
  /\ Idle(c)
  /\ BeginConnect(c, "connect")
  /\ UNCHANGED <<cfgvars, fsvars, mainvars, unitvars, stats, retryvars, shavars, sop, cli, latevars>>

\* if self._conn is None or self._conn._default_loop is None
\* (a connection of the model keeps its loop)
NeedsConnect(cl) == cl.conn = 0

\* ensure_connected(): ...: await self.connect()
EnsureConnected(c) ==
  /\ Idle(c)
  /\ IF NeedsConnect(client)
       THEN BeginConnect(c, "ensure_connected")
       ELSE /\ caller' = [caller EXCEPT ![c].last = "ensure_connected"]
            /\ UNCHANGED <<client, ssh, closed>>
  /\ UNCHANGED <<cfgvars, fsvars, mainvars, unitvars, stats, retryvars, shavars, sop, cli, latevars>>

\* asyncssh.connect returns a new connection: self._conn = it; then
\* self._conn.start_sftp_client() is called and awaited
ConnectDone(c) ==
  /\ op = "session"
  /\ caller[c].pc = "connect"
  /\ LET k == ssh.made + 1
     IN /\ ssh' = [ssh EXCEPT !.conns = @ \cup {k}, !.made = k]
        /\ client' = [client EXCEPT !.conn = k]
        /\ caller' = [caller EXCEPT ![c].pc = "start_sftp", ![c].conn = k]
  /\ UNCHANGED <<closed, cfgvars, fsvars, mainvars, unitvars, stats, retryvars,
                 shavars, sop, cli, latevars>>

\* asyncssh.connect raises: connect() raises, self._conn is as it was
ConnectFail(c) ==
  /\ op = "session"
  /\ caller[c].pc = "connect"
  /\ caller' = [caller EXCEPT ![c].pc = "idle"]
  /\ UNCHANGED <<client, ssh, closed, cfgvars, fsvars, mainvars, unitvars, stats,
                 retryvars, shavars, sop, cli, latevars>>

\* self._sftp = await self._conn.start_sftp_client()
\* (it raises when the connection was closed in the meantime)
StartSftp(c) ==
  /\ op = "session"
  /\ caller[c].pc = "start_sftp"
  /\ LET k == caller[c].conn
     IN IF k \in ssh.conns
          THEN /\ ssh' = [ssh EXCEPT !.chans = @ \cup {k}]
               /\ client' = [client EXCEPT !.sftp = k]
          ELSE UNCHANGED <<ssh, client>>
  /\ caller' = [caller EXCEPT ![c].pc = "idle", ![c].conn = 0]
  /\ UNCHANGED <<closed, cfgvars, fsvars, mainvars, unitvars, stats, retryvars,
                 shavars, sop, cli, latevars>>

\* close(): if self._sftp: self._sftp.exit(); self._sftp = None
\*          if self._conn: self._conn.close(); await self._conn.wait_closed()
\* Closing a connection closes its channel too.
Close(c) ==
  /\ Idle(c)
  /\ client' = [client EXCEPT !.sftp = 0]
  /\ ssh' = [ssh EXCEPT !.chans = @ \ {client.sftp, client.conn},
                        !.conns = @ \ {client.conn}]
  /\ IF client.conn # 0
       THEN /\ caller' = [caller EXCEPT ![c] = [pc |-> "wait_closed", conn |-> 0,
                                                last |-> "close"]]
            /\ closed' = closed
       ELSE /\ caller' = [caller EXCEPT ![c].last = "close"]
            /\ closed' = closed
  /\ UNCHANGED <<cfgvars, fsvars, mainvars, unitvars, stats, retryvars, shavars, sop, cli, latevars>>

\* wait_closed() returns (or raises, which is swallowed): self._conn = None
CloseDone(c) ==
  /\ op = "session"
  /\ caller[c].pc = "wait_closed"
  /\ client' = [client EXCEPT !.conn = 0]
  /\ closed' = TRUE
  /\ caller' = [caller EXCEPT ![c].pc = "idle"]
  /\ UNCHANGED <<ssh, cfgvars, fsvars, mainvars, unitvars, stats, retryvars,
                 shavars, sop, cli, latevars>>

Session ==
  \/ \E c \in Callers : Connect(c)
  \/ \E c \in Callers : EnsureConnected(c)
  \/ \E c \in Callers : ConnectDone(c)
  \/ \E c \in Callers : ConnectFail(c)
  \/ \E c \in Callers : StartSftp(c)
  \/ \E c \in Callers : Close(c)
  \/ \E c \in Callers : CloseDone(c)

\* --------------------------------------------------------- _remote_sha256
IsSpace(ch) == ch \in {" ", "\n"}

RECURSIVE lstrip(_)
lstrip(s) == IF s # <<>> /\ IsSpace(Head(s)) THEN lstrip(Tail(s)) ELSE s

RECURSIVE rstrip(_)
rstrip(s) ==
  IF s # <<>> /\ IsSpace(s[Len(s)]) THEN rstrip(SubSeq(s, 1, Len(s) - 1)) ELSE s

\* str.strip()
strip(s) == rstrip(lstrip(s))

\* str.split(): the words between runs of white space
RECURSIVE split(_)
split(s) ==
  LET t == lstrip(s)
  IN IF t = <<>> THEN <<>>
     ELSE LET n == CHOOSE i \in 1..(Len(t) + 1) :
                     /\ (i = Len(t) + 1 \/ IsSpace(t[i]))
                     /\ \A j \in 1..(i - 1) : ~IsSpace(t[j])
          IN <<SubSeq(t, 1, n - 1)>> \o split(SubSeq(t, n, Len(t)))

\* _try: ok = res.exit_status == 0 and bool(out); return bool(ok), out.strip()
try(res) == [ok |-> res.exit_status = 0 /\ res.stdout # <<>>, out |-> strip(res.stdout)]

\* sha256sum, shasum: return out.split()[0]      python3, python: return out
Returned(n, out) ==
  IF n <= 2
    THEN (IF split(out) = <<>> THEN Error("IndexError") ELSE Value(split(out)[1]))
    ELSE Value(out)

\* ok, out = await _try(command n); if ok: return ...; after the fourth:
\* raise RuntimeError("Unable to compute remote SHA-256: no suitable tool ...")
Try(n) ==
  /\ op = "remote_sha256"
  /\ sha.state = "running"
  /\ sha.next = n
  /\ LET r == try(remote[n])
         ran == Append(sha.ran, Commands[n])
     IN sha' =
          IF r.ok
            THEN [state |-> IF Returned(n, r.out).kind = "error" THEN "raised"
                            ELSE "returned",
                  next |-> n, ran |-> ran, result |-> Returned(n, r.out)]
          ELSE IF n = 4
            THEN [state |-> "raised", next |-> n, ran |-> ran,
                  result |-> Error("RuntimeError")]
          ELSE [state |-> "running", next |-> n + 1, ran |-> ran, result |-> NoResult]
  /\ UNCHANGED <<cfgvars, fsvars, mainvars, unitvars, stats, retryvars, sessvars,
                 remote, sop, cli, latevars>>

RemoteSha256 == \E n \in 1..4 : Try(n)

\* ------------------------------------------- the SFTP operations of SSHClient
\* return await self.sftp.<call>(...): the value, or the exception as it is
Propagate(o, v) == IF o = "ok" THEN Value(v) ELSE Error(o)

SopReturns(n, r) ==
  /\ op = "session_op"
  /\ sop.state = "called"
  /\ sop.name = n
  /\ sop' = [sop EXCEPT !.state = "returned", !.result = r]
  /\ UNCHANGED <<cfgvars, fsvars, mainvars, unitvars, stats, retryvars, sessvars,
                 shavars, cli, latevars>>

\* stat: except (FileNotFoundError, asyncssh.SFTPNoSuchFile): return None
Stat ==
  SopReturns("stat",
             IF sop.under[1] \in {"FileNotFoundError", "SFTPNoSuchFile"}
               THEN Value("None") ELSE Propagate(sop.under[1], "attrs"))

\* makedirs: for comp in ...: try: await self.sftp.mkdir(cur)
\*                            except Exception: pass
Makedirs == SopReturns("makedirs", Value("None"))

OpenRemote == SopReturns("open_remote", Propagate(sop.under[1], "file"))

Rename == SopReturns("rename", Propagate(sop.under[1], "None"))

\* remove: except Exception: pass
Remove == SopReturns("remove", Value("None"))

Listdir == SopReturns("listdir", Propagate(sop.under[1], "names"))

SessionOp == Stat \/ Makedirs \/ OpenRemote \/ Rename \/ Remove \/ Listdir

\* ------------------------------------------------------------------- main
\* The arguments of a command line: the two help flags the parsers know (main
\* tests for '-help' too), the sub-commands, the -W flag of send, a plain word
\* (a host, a directory, a path, an unknown command) and a glob pattern that
\* matches no file.
Tokens == {"-h", "--help", "send", "get", "relay", "-W", "a", "g"}
Argvs == UNION {[1..n -> Tokens] : n \in 0..MaxArgs}
HelpFlags == {"-h", "--help"}
Subcommands == {"send", "get", "relay"}
IsOption(t) == t \in {"-h", "--help", "-W"}

\* build_parser: the positionals of a sub-command (target dest paths+, and
\* src dst src_paths+ dst_paths+) and its flags besides those of parent
Arity(cmd) == IF cmd = "relay" THEN 4 ELSE 3
SubOptions(cmd) == IF cmd = "send" THEN {"--help", "-W"} ELSE {"--help"}

SystemExit == [cmd |-> "SystemExit"]

\* The sub-parser on what follows the command.  argparse takes positionals one
\* run of adjacent words at a time; a run that starts when every positional has
\* its words is left over, and left-over words are an error, as are a flag the
\* sub-parser does not know and a positional without a word.  paths is what the
\* last positional of send and get receives.
sub_parse(cmd, rest) ==
  LET P == {j \in 1..Len(rest) : ~IsOption(rest[j])}
      Before(j) == Cardinality({i \in P : i < j})
      Taken == {j \in P : Before(j) >= Arity(cmd) - 1}
  IN  IF /\ \A j \in 1..Len(rest) : IsOption(rest[j]) => rest[j] \in SubOptions(cmd)
         /\ Cardinality(P) >= Arity(cmd)
         /\ \A j \in P : Before(j) >= Arity(cmd) => j - 1 \in P
        THEN [cmd |-> cmd,
              help |-> \E j \in 1..Len(rest) : rest[j] = "--help",
              watch |-> \E j \in 1..Len(rest) : rest[j] = "-W",
              paths |-> [k \in 1..Cardinality(Taken) |->
                           rest[CHOOSE j \in Taken : Cardinality({i \in Taken : i < j}) = k - 1]]]
        ELSE SystemExit

\* parser.parse_args(argv): the flags of the top parser (-h, --help), then the
\* command, which has to be one of the three; the sub-parser's namespace is
\* copied over the top parser's, so a help flag before the command is lost.
parse_args(argv) ==
  LET C == {j \in 1..Len(argv) : argv[j] \notin HelpFlags}
  IN  IF C = {} THEN SystemExit
      ELSE LET c == CHOOSE j \in C : \A i \in C : j <= i
           IN  IF argv[c] \in Subcommands
                 THEN sub_parse(argv[c], SubSeq(argv, c + 1, Len(argv)))
                 ELSE SystemExit

\* expand_local_globs: a pattern yields its matches, any other path itself
expand_local_globs(paths) == SelectSeq(paths, LAMBDA t : t # "g")

\* How asyncio.run(args.func(args)) ends, given how the transfer method ends if
\* it is called (out) and whether the user interrupts the run.  transfer is
\* what the TransferManager did: "none" when no method of it was called,
\* "watch" for watch_and_send, whose body is pass.
RunOutcomes == {"returned", "raised", "interrupted"}
Ran(fn, end, transfer) == [fn |-> fn, end |-> end, transfer |-> transfer]

cmd_send(args, out) ==
  IF out = "interrupted" THEN Ran("cmd_send", "interrupted", "none")
  ELSE IF expand_local_globs(args.paths) = <<>> THEN Ran("cmd_send", "returned", "none")
  ELSE IF args.watch THEN Ran("cmd_send", "returned", "watch")
  ELSE Ran("cmd_send", out, out)

cmd_get(args, out) ==
  IF out = "interrupted" THEN Ran("cmd_get", "interrupted", "none")
  ELSE Ran("cmd_get", out, out)

cmd_relay(args, out) ==
  IF out = "interrupted" THEN Ran("cmd_relay", "interrupted", "none")
  ELSE Ran("cmd_relay", out, out)

func(args, out) ==
  CASE args.cmd = "send" -> cmd_send(args, out)
    [] args.cmd = "get" -> cmd_get(args, out)
    [] args.cmd = "relay" -> cmd_relay(args, out)

\* handle_error: every branch prints its advice and returns 1
handle_error(e) == 1

Exit(argv, code, helped, parsed, r) ==
  [state |-> "exited", argv |-> argv, code |-> code, helped |-> helped,
   parsed |-> parsed, fn |-> r.fn, run |-> r.end, transfer |-> r.transfer]

NotRun == Ran("none", "none", "none")

main(argv, out) ==
  IF Len(argv) = 0 \/ (Len(argv) = 1 /\ \E j \in 1..Len(argv) : argv[j] \in HelpFlags)
    THEN Exit(argv, 0, TRUE, "none", NotRun)
  ELSE IF Len(argv) >= 2 /\ argv[2] \in HelpFlags
    THEN Exit(argv, 0, argv[1] \in Subcommands, "none", NotRun)
  ELSE LET args == parse_args(argv)
       IN  IF args = SystemExit THEN Exit(argv, 1, FALSE, "SystemExit", NotRun)
           ELSE IF args.help THEN Exit(argv, 0, TRUE, "args", NotRun)
           ELSE LET r == func(args, out)
                IN  CASE r.end = "interrupted" -> Exit(argv, 130, FALSE, "args", r)
                      [] r.end = "raised" -> Exit(argv, handle_error(r), FALSE, "args", r)
                      [] r.end = "returned" -> Exit(argv, 0, FALSE, "args", r)

Main ==
  /\ op = "main"
  /\ cli.state = "idle"
  /\ \E argv \in Argvs : \E out \in RunOutcomes : cli' = main(argv, out)
  /\ UNCHANGED <<cfgvars, fsvars, mainvars, unitvars, stats, retryvars, sessvars,
                 shavars, sop, latevars>>

\* ----------------------------------------------------------- _EventBatcher
\* An event has is_directory and src_path; a path is its rank in the order of
\* sorted().  on_batch returns or raises.
WatchPaths == 1..2
Events == [is_directory : BOOLEAN, src_path : WatchPaths]
CallbackOutcomes == {"returns", "raises"}

RECURSIVE sorted(_)
sorted(S) ==
  IF S = {} THEN <<>>
  ELSE LET x == CHOOSE y \in S : \A z \in S : y <= z IN <<x>> \o sorted(S \ {x})

\* if now - self._last > self.debounce_s
Due_AtDebounce(now, last) == now - last >= DEBOUNCE_S

Due(now, last) == now - last > DEBOUNCE_S

\* on_any_event(event).  events and batches are the record of what happened:
\* every event; every call of on_batch with its time,
\* its argument, the number of events received by then, whether it returned
\* and what _paths held when on_any_event ended.
OnAnyEvent(e, out) ==
  /\ op = "watch"
  /\ watch.state = "watching"
  /\ Len(watch.events) < MaxEvents
  /\ LET ev == Append(watch.events, [is_directory |-> e.is_directory,
                                      src_path |-> e.src_path])
         ps == watch.paths \cup {e.src_path}
         left == IF out = "returns" THEN {} ELSE ps
     IN  watch' =
           IF e.is_directory THEN [watch EXCEPT !.events = ev]
           ELSE IF Due(watch.now, watch.last)
             THEN [watch EXCEPT !.events = ev,
                                !.last = watch.now,
                                !.paths = left,
                                !.batches = Append(@, [at |-> watch.now,
                                                       paths |-> sorted(ps),
                                                       upto |-> Len(ev),
                                                       ok |-> out = "returns",
                                                       left |-> left])]
           ELSE [watch EXCEPT !.events = ev, !.paths = ps]
  /\ UNCHANGED <<cfgvars, fsvars, mainvars, unitvars, stats, retryvars, sessvars,
                 shavars, sop, cli, mkd, cmdl>>

\* time passes
Tick ==
  /\ op = "watch"
  /\ watch.state = "watching"
  /\ watch.now < MaxClock
  /\ watch' = [watch EXCEPT !.now = @ + 1]
  /\ UNCHANGED <<cfgvars, fsvars, mainvars, unitvars, stats, retryvars, sessvars,
                 shavars, sop, cli, mkd, cmdl>>

Watch == Tick \/ \E e \in Events : \E out \in CallbackOutcomes : OnAnyEvent(e, out)

\* ------------------------------------------------------ SSHClient.makedirs
\* p = path.replace("\\", "/").strip("/"); for comp in p.split("/"): the
\* components of the path without its leading slash; "".split("/") is [""].
Components(path) == IF path.comps = <<>> THEN <<"">> ELSE path.comps

\* cur = f"{cur}/{comp}" if cur else f"/{comp}": the absolute directory named
\* by the first i components ("/" for the single empty component).
Cur(path, i) == SelectSeq(SubSeq(Components(path), 1, i), LAMBDA c : c # "")

\* sftp.mkdir(cur) makes the directory when its parent is there and it is not
Parent(d) == SubSeq(d, 1, Len(d) - 1)
CanMkdir(dirs, d) == d \notin dirs /\ d # <<>> /\ Parent(d) \in dirs

\* try: await self.sftp.mkdir(cur)  except Exception: pass
MakedirsStep ==
  /\ op = "makedirs"
  /\ mkd.state = "called"
  /\ mkd.i <= Len(Components(mkd.path))
  /\ LET cur == Cur(mkd.path, mkd.i)
     IN  mkd' = [mkd EXCEPT !.i = @ + 1,
                            !.calls = Append(@, cur),
                            !.dirs = IF CanMkdir(@, cur) THEN @ \cup {cur} ELSE @]
  /\ UNCHANGED <<cfgvars, fsvars, mainvars, unitvars, stats, retryvars, sessvars,
                 shavars, sop, cli, watch, cmdl>>

MakedirsReturn ==
  /\ op = "makedirs"
  /\ mkd.state = "called"
  /\ mkd.i > Len(Components(mkd.path))
  /\ mkd' = [mkd EXCEPT !.state = "returned"]
  /\ UNCHANGED <<cfgvars, fsvars, mainvars, unitvars, stats, retryvars, sessvars,
                 shavars, sop, cli, watch, cmdl>>

\* ------------------------------------------- the commands of _remote_sha256
\* A command line is a sequence of characters and of pieces of text that hold
\* no quote, no backslash and no space.
\* _esc: p.replace("'", "'\\''")
RECURSIVE esc(_)
esc(p) ==
  IF p = <<>> THEN <<>>
  ELSE (IF Head(p) = "'" THEN <<"'", "\\", "'", "'">> ELSE <<Head(p)>>) \o esc(Tail(p))

\* py_code: f"f=open(r'''{path}''','rb');" between the other statements
py_code(path) ==
  <<"import", " ", "hashlib;f=open(r", "'", "'", "'">> \o path
    \o <<"'", "'", "'", ",", "'", "rb", "'",
         ");h=hashlib.sha256();b=f.read(1048576);while", " ", "b:", " ",
         "h.update(b);", " ", "b=f.read(1048576);print(h.hexdigest())">>

\* The four command lines, in the order they are tried.
CommandLine(n, path) ==
  CASE n = 1 -> <<"sha256sum", " ", "--", " ", "'">> \o esc(path) \o <<"'">>
    [] n = 2 -> <<"shasum", " ", "-a", " ", "256", " ", "--", " ", "'">> \o esc(path) \o <<"'">>
    [] n = 3 -> <<"python3", " ", "-c", " ", "'">> \o py_code(path) \o <<"'">>
    [] n = 4 -> <<"python", " ", "-c", " ", "'">> \o py_code(path) \o <<"'">>

\* _try(cmd) for the n-th command
BuildCommand ==
  /\ op = "commands"
  /\ Len(cmdl.cmds) < 4
  /\ cmdl' = [cmdl EXCEPT !.cmds = Append(@, CommandLine(Len(@) + 1, cmdl.path))]
  /\ UNCHANGED <<cfgvars, fsvars, mainvars, unitvars, stats, retryvars, sessvars,
                 shavars, sop, cli, watch, mkd>>

\* ------------------------------------------------------------------ Next
\* send_local_to_remote, get_remote_to_local, relay_remote_to_remote
Transfer ==
  \/ Submit
  \/ SubmitBlock
  \/ SubmitResume
  \/ AwaitTask
  \/ \E u \in Units : Mkdir(u)
  \/ \E u \in Units : MkdirFail(u)
  \/ \E u \in Units : Prepare(u)
  \/ \E u \in Units : Open(u)
  \/ \E u \in Units : Copy(u)
  \/ \E u \in Units : CopyLost(u)
  \/ \E u \in Units : CopyEOF(u)
  \/ \E u \in Units : Verify(u)
  \/ \E u \in Units : Publish(u)
  \/ \E u \in Units : PublishLost(u)
  \/ \E u \in Units : StatDst(u)
  \/ \E u \in Units : Fault(u)
  \/ \E u \in Units : Wake(u)
  \/ \E u \in Units : Cancel(u)

Next ==
  \/ Transfer
  \/ Session
  \/ RemoteSha256
  \/ SessionOp
  \/ RetryCallOk
  \/ RetryCallFails
  \/ RetryWake
  \/ Main
  \/ Tick
  \/ \E e \in Events : \E out \in CallbackOutcomes : OnAnyEvent(e, out)
  \/ MakedirsStep
  \/ MakedirsReturn
  \/ BuildCommand

Spec == Init /\ [][Next]_vars

\* An _EventBatcher and the clock: time passes whatever else happens, events
\* come or do not come.
SpecWatch == InitWatch /\ [][Watch]_vars /\ WF_vars(Tick)

\* The transfer methods, called with the paths of InitPaths.
SpecPaths == InitPaths /\ [][Transfer]_vars

\* send, get and relay under a fair event loop: the method's coroutine runs
\* when it can, and every awaited call and sleep of a unit returns or raises.
\* Whether the loop is shut down after the method raised is up to the caller.
MainStep == Submit \/ SubmitBlock \/ SubmitResume \/ AwaitTask

UnitStep(u) ==
  \/ Mkdir(u) \/ MkdirFail(u) \/ Prepare(u) \/ Open(u) \/ Copy(u) \/ CopyLost(u)
  \/ CopyEOF(u) \/ Verify(u) \/ Publish(u) \/ PublishLost(u) \/ StatDst(u)
  \/ Fault(u) \/ Wake(u)

InitTransfer == InitOne \/ InitMany \/ InitDefault

SpecFair ==
  /\ InitTransfer
  /\ [][Transfer]_vars
  /\ WF_vars(MainStep)
  /\ \A u \in 1..MaxUnits : WF_vars(u \in Units /\ UnitStep(u))

\* ====================================================== the claims
Spawned == {u \in Units : pc[u] # "unspawned"}
Done == {u \in Units : renamed[u]}
Finished == \A u \in Units : pc[u] \in {"done", "failed"}

RECURSIVE SumOver(_, _)
SumOver(S, f) ==
  IF S = {} THEN 0
  ELSE LET x == CHOOSE y \in S : TRUE IN f[x] + SumOver(S \ {x}, f)

IsPrefix(a, b) == Len(a) <= Len(b) /\ \A i \in 1..Len(a) : a[i] = b[i]

\* C1: in send, get and relay the units that hold a permit never outnumber the
\* permits (opts.parallel, or the default when it is not set); only a unit for
\* which the submission loop took a permit is spawned, so every spawned unit
\* that has not ended holds one of the permits and the loop cannot spawn while
\* all of them are held.
C1_InFlightBounded ==
  op \in TransferOps =>
    /\ Cardinality(InFlight) <= Parallel
    /\ (opts.parallel # 0 => Cardinality(InFlight) <= opts.parallel)
    /\ Spawned = 1..tasks
    /\ semaphore = Parallel - Cardinality(InFlight)

\* The submission loop is parked in acquire() while every permit is held.
C1_Witness ==
  /\ mainpc = "acquire"
  /\ tasks < Len(files)
  /\ Cardinality(InFlight) = Parallel
  /\ semaphore = 0

\* C2: the destination changes only by the rename of its .part in the Publish
\* step of an attempt whose copy loop has read the source to its end and, with
\* opts.verify, whose two digests are equal; what appears at the destination is
\* that complete .part, never a file shorter than the source.
C2_PublishOnly ==
  [][\A d \in DOMAIN dest :
       dest'[d] # dest[d] =>
         \E u \in Units :
           /\ Dst(u) = d
           /\ pc[u] = "publish"
           /\ lpos[u] >= Total(u)
           /\ (opts.verify =>
                 sha256_file(File(Src(u))) = sha256_file(part[d]))
           /\ dest'[d] = part[d]
           /\ part[d].ex
           /\ Len(dest'[d].data) >= Total(u)]_vars

\* An earlier version is still at the destination while a later attempt of
\* the unit is half way through its copy.
C2_Witness ==
  \E u \in Units :
    /\ pc[u] = "copy"
    /\ attempt[u] > 1
    /\ dest[Dst(u)] = OldVersion
    /\ part[Dst(u)].ex
    /\ 0 < Len(part[Dst(u)].data)
    /\ Len(part[Dst(u)].data) < Total(u)

\* C3: with opts.verify, the destination of a unit that has reached Done holds
\* exactly the bytes of the source, whatever .part the run found and whatever
\* attempts failed before.
C3_VerifiedContent ==
  \A u \in Units :
    (opts.verify /\ renamed[u]) => dest[Dst(u)] = File(Src(u))

\* Done on a later attempt, from a .part that held a proper prefix of the source.
C3_Witness ==
  \E u \in Units :
    /\ opts.verify
    /\ pc[u] = "done"
    /\ attempt[u] > 1
    /\ part0[Dst(u)].ex
    /\ 0 < Len(part0[Dst(u)].data)
    /\ Len(part0[Dst(u)].data) < Total(u)
    /\ dest[Dst(u)] = File(Src(u))

\* C4: once a unit is Done there is no .part for its destination, and there is
\* none at all when the method returns.
C4_NoPartLeft ==
  /\ \A u \in Units : renamed[u] => ~part[Dst(u)].ex
  /\ (mainpc = "returned" => \A d \in DOMAIN part : ~part[d].ex)

\* The method has returned after a run that found a .part.
C4_Witness ==
  /\ mainpc = "returned"
  /\ \E u \in Units : part0[Dst(u)].ex /\ Len(part0[Dst(u)].data) > 0

\* C5: the first attempt of a unit that finds a .part holding the first N bytes
\* of the source, 0 < N < total, opens it without truncating, starts reading
\* and writing at N, reads and writes the source bytes N..total-1 and no others,
\* and ends with the whole source in the .part and then at the destination.
\* (Positions are counted from 1 in the model: N+1..total.)
Resuming(u) ==
  /\ attempt[u] = 1
  /\ part0[Dst(u)].ex
  /\ 0 < Len(part0[Dst(u)].data)
  /\ Len(part0[Dst(u)].data) < Total(u)
  /\ IsPrefix(part0[Dst(u)].data, Src(u))

C5_Resume ==
  \A u \in Units :
    Resuming(u) =>
      LET N == Len(part0[Dst(u)].data)
          rest == (N + 1)..Total(u)
      IN /\ pc[u] \in {"copy", "verify", "publish", "stat_dst", "done"} =>
              /\ wmode[u] # "wb"
              /\ offset[u] = N
              /\ rd[u] \subseteq rest
              /\ wr[u] = rd[u]
              /\ lpos[u] = N + Cardinality(rd[u])
         /\ (pc[u] = "copy" /\ rd[u] = {}) => (lpos[u] = N /\ WritePos(u) = N)
         /\ pc[u] = "copy" => IsPrefix(part0[Dst(u)].data, part[Dst(u)].data)
         /\ pc[u] \in {"verify", "publish"} =>
              (rd[u] = rest /\ part[Dst(u)] = File(Src(u)))
         /\ pc[u] \in {"stat_dst", "done"} =>
              (rd[u] = rest /\ dest[Dst(u)] = File(Src(u)))

\* A resumed unit is Done after its first attempt.
C5_Witness ==
  \E u \in Units :
    /\ Resuming(u)
    /\ pc[u] = "done"
    /\ Len(part0[Dst(u)].data) = 1
    /\ rd[u] = 2..Total(u)
    /\ Total(u) = 3

\* C6: every error raised in attempt k <= opts.retries of a unit leads to a
\* sleep and a new attempt, and only a failure of attempt opts.retries + 1 ends
\* the unit: a unit that has ended Failed has made exactly opts.retries + 1
\* attempts, and no unit makes more.
C6_AttemptsWhenFailed ==
  \A u \in Units :
    /\ attempt[u] <= opts.retries + 1
    /\ pc[u] = "failed" => attempt[u] = opts.retries + 1

\* C6 for the units whose Prepare lies inside the retry loop (send and relay).
C6_UploadRelayAttempts ==
  op \in {"send", "relay"} =>
    \A u \in Units :
      /\ attempt[u] <= opts.retries + 1
      /\ pc[u] = "failed" => attempt[u] = opts.retries + 1

\* C7: the k-th delay a unit, or async_retry, sleeps is
\* min(backoff * 2^(k-1), 10 s); the delays never decrease and never exceed
\* 10 s; there is one delay per failed attempt that was retried and none after
\* the failure that ends the unit or the call.
ExpectedDelay(k) ==
  LET d == opts.backoff * (2 ^ (k - 1)) IN IF d < 100 THEN d ELSE 100

DelaysAsExpected(ds) ==
  /\ \A k \in 1..Len(ds) : ds[k] = ExpectedDelay(k) /\ ds[k] <= 100
  /\ \A k \in 1..(Len(ds) - 1) : ds[k] <= ds[k + 1]

C8_FilesCountsDone ==
  /\ stats.files = Cardinality(Done)
  /\ \A u \in Units : pc[u] = "done" => renamed[u]
  /\ \A u \in Units : pc[u] = "failed" => ~renamed[u]
  /\ (Finished => stats.files = Cardinality({u \in Units : pc[u] = "done"}))

\* Of two concurrent units one is Done and the other has ended Failed.
C8_Witness ==
  /\ Finished
  /\ Parallel > 1
  /\ \E u, v \in Units : pc[u] = "done" /\ pc[v] = "failed" /\ attempt[u] > 1
  /\ stats.files = 1

\* C9: stats.retries is never negative and is the sum of attempts - 1 over the
\* units that have completed; the attempts of a unit that ends Failed add
\* nothing.
C9_RetriesSum ==
  /\ stats.retries >= 0
  /\ stats.retries =
       SumOver({u \in Units : pc[u] = "done"}, [u \in Units |-> attempt[u] - 1])

\* All units have ended: one Done on its second attempt, one Failed after two.
C9_Witness ==
  /\ Finished
  /\ \E u, v \in Units :
       /\ pc[u] = "done" /\ attempt[u] = 2
       /\ pc[v] = "failed" /\ attempt[v] = 2
  /\ stats.retries = 1

\* C10: when the method returns, stats.bytes is the sum of the sizes of the
\* files at the destinations of the units that reached Done.
C10_BytesAtDestination ==
  mainpc = "returned" =>
    stats.bytes =
      SumOver(Done, [u \in Units |-> Len(dest[Dst(u)].data)])

\* C11: in one call of send, get or relay the pairs handed to the scheduler have
\* pairwise distinct destinations, whatever paths the caller named, so no two
\* units that are in flight at the same time write the same .part.
C11_DistinctParts ==
  op \in TransferOps =>
    \A u, v \in Units :
      (u # v /\ u \in InFlight /\ v \in InFlight) => Dst(u) # Dst(v)

\* What follows from it with verification on, and does not hold either: the
\* destination of a unit that is Done holds the unit's source.
C11_SameNameContent ==
  \A u \in Units : pc[u] = "done" => dest[Dst(u)] = File(Src(u))

\* The relay of a command line is one pair.
C11_RelayOnePair == op = "relay" => Len(files) = 1

\* C12: every spawned unit gives its permit back exactly once, in the step in
\* which it ends, whether it ends Done, Failed or cancelled, and at no other
\* time: in every step the semaphore goes up by the number of units that end
\* and down by the number that are spawned, and a unit that has ended stays
\* ended.  So the permits available never exceed opts.parallel (the default
\* when it is not set) and are all back once every spawned unit has ended.
C12_Step ==
  LET ended == {u \in Units : pc[u] \notin Terminal /\ pc'[u] \in Terminal}
      started == {u \in Units : pc[u] = "unspawned" /\ pc'[u] # "unspawned"}
      capacity == IF opts.parallel # 0 THEN opts.parallel
                  ELSE default_concurrency(cpu)
  IN /\ semaphore' = semaphore + Cardinality(ended) - Cardinality(started)
     /\ \A u \in Units : pc[u] \in Terminal => pc'[u] = pc[u]
     /\ semaphore' <= capacity
     /\ semaphore' >= 0
     /\ (\A u \in Units : pc'[u] \in Terminal \cup {"unspawned"})
           => semaphore' = capacity

C12_ReleaseOnce == [][(op \in TransferOps) => C12_Step]_vars

\* Two units ran side by side; one has ended Failed, the other was cancelled,
\* and both permits are back.
C12_Witness ==
  /\ op \in TransferOps
  /\ opts.parallel = 2
  /\ \E u, v \in Units : pc[u] = "failed" /\ pc[v] = "cancelled" /\ attempt[v] > 0
  /\ \A u \in Units : pc[u] \in Terminal
  /\ semaphore = 2

\* C13: when a unit has ended Failed the method ends by raising that error; no
\* other unit is cancelled because of it, every other unit that was in flight
\* goes on to Done or Failed on its own, and nothing is spawned after the
\* method has raised.
C13_OthersContinue ==
  [][(op \in TransferOps) =>
       /\ (mainpc' = "raised" => pc'[awaiting'] = "failed")
       /\ \A u \in Units : pc'[u] # "cancelled"
       /\ (mainpc = "raised" => (mainpc' = "raised" /\ tasks' = tasks))]_vars

\* What does hold: the method raises only for a unit that ended Failed, and
\* spawns nothing afterwards.
C13_RaisesAndStops ==
  [][(op \in TransferOps) =>
       /\ (mainpc' = "raised" => pc'[awaiting'] = "failed")
       /\ (mainpc = "raised" => (mainpc' = "raised" /\ tasks' = tasks))]_vars

\* C14: async_retry(fn, retries, base_delay).  When fn raises on its first k
\* calls, k <= retries, and returns on call k + 1, async_retry returns what that
\* call returned, after exactly k + 1 calls; when fn raises on all of its first
\* retries + 1 calls, async_retry raises the error of the last of them and fn
\* was called exactly retries + 1 times.  Every call that raised an Exception
\* before that was followed by a sleep and another call.
Errors(k) == [i \in 1..k |-> "error"]

C14_RetryResult ==
  op = "async_retry" =>
    /\ Len(r_log) <= opts.retries + 1
    /\ r_pc \in {"call", "sleep"} =>
         /\ r_result.kind = "none"
         /\ \E k \in 0..opts.retries : r_log = Errors(k)
    /\ r_pc = "returned" =>
         \E k \in 0..opts.retries :
           /\ r_log = Append(Errors(k), "value")
           /\ r_result = [kind |-> "value", what |-> k + 1]
           /\ Len(r_slept) = k
    /\ r_pc = "raised" =>
         /\ r_log = Errors(opts.retries + 1)
         /\ r_result = [kind |-> "error", what |-> opts.retries + 1]
         /\ Len(r_slept) = opts.retries

\* fn raised twice and returned on its third call (tests/test_retry.py).
C14_Witness ==
  /\ op = "async_retry"
  /\ opts.retries = 3
  /\ r_pc = "returned"
  /\ r_log = <<"error", "error", "value">>
  /\ r_result = [kind |-> "value", what |-> 3]

\* The state of the Session: Connected while it holds an open connection,
\* Closed when it holds none and a close() has closed its connection (or is
\* waiting for that), Fresh otherwise.
Connected == client.conn # 0 /\ client.conn \in ssh.conns
Closing == \E c \in Callers : caller[c].pc = "wait_closed"
SessionState ==
  IF Connected THEN "Connected"
  ELSE IF closed \/ Closing THEN "Closed" ELSE "Fresh"

\* C15: a Session moves only along Fresh -> Connected -> Closed;
\* ensure_connected on a Connected session changes nothing; Closed is
\* terminal: once close() has returned no call brings the session back to
\* Connected.
\* The step is a call of ensure_connected by c, made and ended while Connected.
EnsuredWhileConnected(c) ==
  /\ op = "session"
  /\ Connected
  /\ caller[c].pc = "idle"
  /\ caller'[c].pc = "idle"
  /\ caller[c].last # "ensure_connected"
  /\ caller'[c].last = "ensure_connected"

C15_Step ==
  /\ <<SessionState, SessionState'>> \in
        {<<"Fresh", "Fresh">>, <<"Fresh", "Connected">>,
         <<"Connected", "Connected">>, <<"Connected", "Closed">>,
         <<"Closed", "Closed">>}
  /\ \A c \in Callers : EnsuredWhileConnected(c) => (client' = client /\ ssh' = ssh)
  /\ closed => ~Connected'

C15_ClosedIsTerminal == [][(op = "session") => C15_Step]_vars

\* The last part of C15 alone, for a session only one coroutine has called:
\* Connected is not its state once a close() has returned.
OneCaller ==
  \A c \in Callers : c # 1 => caller[c] = [pc |-> "idle", conn |-> 0, last |-> "none"]

C15_OneCallerClosed == (op = "session" /\ OneCaller /\ closed) => ~Connected

\* What does hold: ensure_connected on a Connected session is a no-op.
C15_Noop ==
  [][\A c \in Callers :
       EnsuredWhileConnected(c) => (client' = client /\ ssh' = ssh)]_vars

\* C16: whatever connect, ensure_connected and close calls were made, by one
\* caller or by several, at most one connection and one SFTP channel are open,
\* and they are the ones the SSHClient holds in _conn and _sftp.
C16_OneConnection ==
  op = "session" =>
    /\ Cardinality(ssh.conns) <= 1
    /\ Cardinality(ssh.chans) <= 1
    /\ ssh.conns \subseteq {client.conn}
    /\ ssh.chans \subseteq {client.sftp}

\* C16 for a session only one coroutine has called.
C16_OneCaller ==
  (op = "session" /\ OneCaller) =>
    /\ Cardinality(ssh.conns) <= 1
    /\ ssh.conns \subseteq {client.conn}

\* C16 for callers that use ensure_connected and close only, never connect().
C16_EnsureOnly ==
  (op = "session" /\ \A c \in Callers : caller[c].last # "connect") =>
    Cardinality(ssh.conns) <= 1

\* ensure_connected was called on a Connected session and returned.
C15_NoopWitness ==
  /\ Connected
  /\ client.sftp = client.conn
  /\ \E c \in Callers : caller[c] = [pc |-> "idle", conn |-> 0, last |-> "ensure_connected"]
  /\ ssh.made = 1
  /\ ~closed

\* C17: _remote_sha256 runs sha256sum, shasum -a 256, python3 -c, python -c in
\* this order, a command only when every one before it failed (exit status not
\* 0, or empty standard output); it returns the digest the first successful
\* command printed; it raises the "no suitable tool" RuntimeError exactly when
\* all four failed, and nothing else is raised on account of the outputs.
Succeeds(n) == remote[n].exit_status = 0 /\ remote[n].stdout # <<>>
FirstOk == {n \in 1..4 : Succeeds(n) /\ \A m \in 1..(n - 1) : ~Succeeds(m)}

C17_HashChain ==
  op = "remote_sha256" =>
    /\ sha.ran = SubSeq(Commands, 1, Len(sha.ran))
    /\ \A i \in 1..(Len(sha.ran) - 1) : ~Succeeds(i)
    /\ sha.state = "running" => \A i \in 1..Len(sha.ran) : ~Succeeds(i)
    /\ sha.state = "returned" =>
         \E n \in FirstOk :
           /\ Len(sha.ran) = n
           /\ split(remote[n].stdout) # <<>> =>
                sha.result = [kind |-> "value", what |-> split(remote[n].stdout)[1]]
    /\ sha.state = "raised" =>
         /\ FirstOk = {}
         /\ Len(sha.ran) = 4
         /\ sha.result = [kind |-> "error", what |-> "RuntimeError"]

\* C17 on the remote hosts whose commands print a digest or nothing at all.
C17_DigestOrNothing ==
  (op = "remote_sha256" /\ \A n \in 1..4 : remote[n].stdout # <<"\n">>) =>
    /\ sha.ran = SubSeq(Commands, 1, Len(sha.ran))
    /\ \A i \in 1..(Len(sha.ran) - 1) : ~Succeeds(i)
    /\ sha.state = "returned" =>
         \E n \in FirstOk : Len(sha.ran) = n /\ sha.result = [kind |-> "value", what |-> <<"D">>]
    /\ sha.state = "raised" =>
         /\ FirstOk = {}
         /\ Len(sha.ran) = 4
         /\ sha.result = [kind |-> "error", what |-> "RuntimeError"]

\* C18: the operations of the Session hand the errors of the SFTP calls to the
\* caller as they are.  stat turns only "not found" into an absent result;
\* makedirs lets only components that exist already pass (the SFTPFailure of
\* mkdir) and raises any other error; open_remote, rename and listdir raise
\* every error; remove alone swallows them.
NotFound == {"FileNotFoundError", "SFTPNoSuchFile"}
Tolerated == {"ok", "SFTPFailure"}

C18_ErrorsSurface ==
  (op = "session_op" /\ sop.state = "returned") =>
    LET u == sop.under
        r == sop.result
    IN /\ sop.name = "stat" =>
            /\ u[1] \in NotFound => r = [kind |-> "value", what |-> "None"]
            /\ u[1] = "ok" => r.kind = "value" /\ r.what # "None"
            /\ u[1] \notin NotFound \cup {"ok"} => r = [kind |-> "error", what |-> u[1]]
       /\ sop.name = "makedirs" =>
            /\ (\A i \in 1..Len(u) : u[i] \in Tolerated) => r.kind = "value"
            /\ (\E i \in 1..Len(u) : u[i] \notin Tolerated) =>
                 (r.kind = "error" /\ \E i \in 1..Len(u) : r.what = u[i])
       /\ sop.name \in {"open_remote", "rename", "listdir"} =>
            /\ u[1] = "ok" => r.kind = "value"
            /\ u[1] # "ok" => r = [kind |-> "error", what |-> u[1]]
       /\ sop.name = "remove" => r.kind = "value"

\* C18 without makedirs.
C18_OtherOperations ==
  (op = "session_op" /\ sop.name # "makedirs") => C18_ErrorsSurface

\* C19: send run again over destinations that exist already (a file at the
\* destination, no .part) completes for every pair: when a unit of such a run
\* has copied its source into the .part, its Publish rename can put the .part
\* in the place of the file that is there, and leaves the destination equal
\* to the source.
Rerun(u) == op = "send" /\ dest0[Dst(u)].ex /\ ~part0[Dst(u)].ex

C19_Republish ==
  \A u \in Units :
    (Rerun(u) /\ MainSuspended /\ pc[u] = "publish" /\ part[Dst(u)] = File(Src(u))) =>
      ENABLED (Publish(u) /\ renamed'[u] /\ dest'[Dst(u)] = File(Src(u)))

\* On a server whose rename does not replace an existing file no unit of such
\* a run is ever Done, and the file that was there stays.
C19_NeverDone ==
  \A u \in Units :
    (op \in {"send", "relay"} /\ dest0[Dst(u)].ex /\ ~renameReplaces) =>
      (~renamed[u] /\ pc[u] # "done" /\ dest[Dst(u)] = dest0[Dst(u)])

\* On a server whose rename replaces, the run can complete.
C19_ReplacingServer ==
  \A u \in Units :
    (Rerun(u) /\ renameReplaces /\ MainSuspended /\ pc[u] = "publish"
       /\ part[Dst(u)] = File(Src(u))) =>
      ENABLED (Publish(u) /\ renamed'[u] /\ dest'[Dst(u)] = File(Src(u)))

\* C20: main returns one of 0, 1 and 130: 0 only when the operation asked for
\* returned without an error (the transfer method, or the watcher of send -W)
\* or help was printed, 1 when the arguments do not parse or the operation
\* raises, 130 when the user interrupts the run; a command that was run and
\* made no transfer does not return 0.
Exited == op = "main" /\ cli.state = "exited"
Succeeded == cli.transfer \in {"returned", "watch"}
C20_ExitCodes ==
  Exited =>
    /\ cli.code \in {0, 1, 130}
    /\ cli.code = 0 => (Succeeded \/ cli.helped)
    /\ cli.parsed = "SystemExit" => cli.code = 1
    /\ cli.run = "raised" => cli.code = 1
    /\ cli.run = "interrupted" => cli.code = 130
    /\ (cli.fn # "none" /\ ~Succeeded) => cli.code # 0

\* C20, the part the code keeps: the value is one of the three, it is 1 for
\* arguments the parser rejects and for an operation that raises, 130 for an
\* interrupted run, and a transfer method that returned gives 0.
C20_ErrorCodes ==
  Exited =>
    /\ cli.code \in {0, 1, 130}
    /\ cli.parsed = "SystemExit" => cli.code = 1
    /\ cli.run = "raised" => cli.code = 1
    /\ cli.run = "interrupted" => cli.code = 130
    /\ cli.transfer = "returned" => cli.code = 0

\* C20, where 0 is returned with no operation done and no help printed: a help
\* flag second after a word that is no command, and send with patterns that
\* match nothing.
HelpAfterUnknown ==
  Len(cli.argv) >= 2 /\ cli.argv[2] \in HelpFlags /\ cli.argv[1] \notin Subcommands
NothingToSend == cli.fn = "cmd_send" /\ cli.run = "returned" /\ cli.transfer = "none"
C20_ZeroWithoutSuccess ==
  (Exited /\ cli.code = 0 /\ ~Succeeded /\ ~cli.helped) =>
    (HelpAfterUnknown \/ NothingToSend)

C20_NothingSentCode == (Exited /\ NothingToSend) => cli.code # 0
C20_UnknownHelpCode == (Exited /\ HelpAfterUnknown) => cli.code # 0

\* C21: relay called with n source paths followed by n destination paths hands
\* relay_remote_to_remote n pairs, the i-th being (i-th source, i-th
\* destination).
PairedArgs(n) == op = "relay" /\ cli.fn = "cmd_relay" /\ Len(cli.argv) = 2 * n
C21_IndexWise ==
  \A n \in 1..2 :
    PairedArgs(n) =>
      /\ Len(files) = n
      /\ \A i \in 1..n : files[i].path = cli.argv[i] /\ files[i].dst = cli.argv[n + i]

\* C21 for n = 1, which holds.
C21_OnePair ==
  PairedArgs(1) =>
    Len(files) = 1 /\ files[1].path = cli.argv[1] /\ files[1].dst = cli.argv[2]

\* C21, what the code does for every n: one pair, the first source with the
\* last destination.
C21_FirstWithLast ==
  (op = "relay" /\ cli.fn = "cmd_relay") =>
    /\ Len(files) = 1
    /\ files[1].path = cli.argv[1]
    /\ files[1].dst = cli.argv[Len(cli.argv)]

\* C22: on_batch is called only when more than debounce_s has passed since its
\* previous call; its argument is, in ascending order and without repeats,
\* exactly the src_paths of the non-directory events that came since the
\* previous call; _paths is empty when the call is over; a directory event
\* causes no call and adds nothing to a batch.
Range(q) == {q[i] : i \in 1..Len(q)}
Ascending(q) == \A i \in 1..Len(q) - 1 : q[i] < q[i + 1]
Recorded(i, j) ==
  {watch.events[k].src_path : k \in {n \in (i + 1)..j : ~watch.events[n].is_directory}}
PrevCall(b) == IF b = 1 THEN 0 ELSE watch.batches[b - 1].upto
C22_Batches ==
  op = "watch" =>
    \A b \in 1..Len(watch.batches) :
      LET B == watch.batches[b]
      IN  /\ b > 1 => B.at - watch.batches[b - 1].at > DEBOUNCE_S
          /\ Ascending(B.paths)
          /\ Range(B.paths) = Recorded(PrevCall(b), B.upto)
          /\ B.left = {}
          /\ ~watch.events[B.upto].is_directory

\* C22 as the code keeps it: the argument holds the events that came since the
\* last call of on_batch that returned, and _paths is empty after a call that
\* returned; a call that raised leaves _paths as it was.
CallReturned(b) == watch.batches[b].ok
PrevReturned(b) ==
  LET R == {a \in 1..(b - 1) : CallReturned(a)}
  IN  IF R = {} THEN 0 ELSE watch.batches[CHOOSE a \in R : \A c \in R : c <= a].upto
C22_BatchesSinceReturn ==
  op = "watch" =>
    \A b \in 1..Len(watch.batches) :
      LET B == watch.batches[b]
      IN  /\ b > 1 => B.at - watch.batches[b - 1].at > DEBOUNCE_S
          /\ Ascending(B.paths)
          /\ Range(B.paths) = Recorded(PrevReturned(b), B.upto)
          /\ B.left = (IF B.ok THEN {} ELSE Range(B.paths))
          /\ ~watch.events[B.upto].is_directory

\* Two calls of on_batch, the second with two paths, one of them recorded while
\* the first call was less than debounce_s ago, with a directory event between.
C22_Witness ==
  /\ op = "watch"
  /\ Len(watch.batches) = 2
  /\ Len(watch.batches[2].paths) = 2
  /\ watch.batches[1].ok
  /\ watch.batches[2].upto = 4
  /\ watch.events[3].is_directory

\* C23: when opts.parallel is not set, the capacity of the semaphore of send,
\* get and relay (the permits available plus those held by units in flight)
\* is max(2, min(32, 2 * cpu_count)), with 4 for an unknown cpu_count, and
\* lies in 2..32.
Capacity == semaphore + Cardinality(InFlight)
C23_DefaultCapacity ==
  (op \in TransferOps /\ opts.parallel = 0) =>
    LET twice == 2 * (IF cpu = 0 THEN 4 ELSE cpu)
    IN  /\ Capacity \in 2..32
        /\ twice <= 2 => Capacity = 2
        /\ twice \in 2..32 => Capacity = twice
        /\ twice >= 32 => Capacity = 32

\* A machine with more than 16 processors, one unit in flight.
C23_Witness ==
  /\ op \in TransferOps
  /\ opts.parallel = 0
  /\ cpu > 16
  /\ Cardinality(InFlight) = 1
  /\ semaphore = 31

\* C24: with verification on, a unit that found a .part holding bytes that are
\* no prefix of its source never passes Verify: every attempt that reaches
\* Verify fails there, is retried after the same delay as any other failure
\* (min(backoff * 2^(k-1), 10 s) after attempt k) and ends the unit Failed
\* only as attempt opts.retries + 1; no step deletes or shortens the .part or
\* changes a byte it holds, and the destination stays as it was.
BadPart(u) ==
  /\ op \in TransferOps
  /\ opts.verify
  /\ part0[Dst(u)].ex
  /\ ~IsPrefix(part0[Dst(u)].data, Src(u))
C24_Step ==
  \A u \in Units :
    BadPart(u) =>
      /\ (pc[u] = "verify" /\ pc'[u] # "verify") => pc'[u] \in {"sleep", "failed", "cancelled"}
      /\ (pc[u] = "verify" /\ pc'[u] = "sleep") =>
            /\ attempt[u] <= opts.retries
            /\ slept'[u] = Append(slept[u], ExpectedDelay(attempt[u]))
      /\ (pc[u] = "verify" /\ pc'[u] = "failed") => attempt[u] = opts.retries + 1
      /\ pc'[u] \notin {"publish", "stat_dst", "done"}
      /\ part'[Dst(u)].ex
      /\ IsPrefix(part[Dst(u)].data, part'[Dst(u)].data)
      /\ dest' = dest
      /\ ~renamed'[u]
C24_VerifyNeverPasses == [][(op \in TransferOps) => C24_Step]_vars

\* A unit that found unrelated bytes in the .part has ended Failed after two
\* attempts that wrote the rest of the source behind them, one delay between.
C24_Witness ==
  \E u \in Units :
    /\ BadPart(u)
    /\ opts.retries = 1
    /\ pc[u] = "failed"
    /\ attempt[u] = 2
    /\ Len(slept[u]) = 1
    /\ Len(part[Dst(u)].data) = Total(u)
    /\ Len(part0[Dst(u)].data) < Total(u)
    /\ part[Dst(u)].data # Src(u)

\* C25: every attempt of a unit takes as its offset the length the .part has
\* when the attempt starts (0 when there is none), starts reading the source
\* and writing the .part at that offset, and only adds bytes at the end of the
\* .part: no byte that is there is written again, what is written at a
\* position is what was read at it, and between a failure and the next
\* attempt the .part stays as the failure left it, so the attempt after a
\* failure at position m resumes at m.
C25_Step ==
  \A u \in Units :
    LET f == part[Dst(u)]
        g == part'[Dst(u)]
    IN  /\ (pc[u] = "prepare" /\ pc'[u] = "open") =>
              /\ offset'[u] = (IF f.ex THEN Len(f.data) ELSE 0)
              /\ g = f
        /\ (pc[u] = "open" /\ pc'[u] = "copy") =>
              /\ g.ex
              /\ g.data = f.data
              /\ Len(g.data) = offset[u]
              /\ lpos'[u] = offset[u]
              /\ (IF wmode'[u] = "ab" THEN Len(g.data) ELSE wpos'[u]) = offset[u]
        /\ (pc[u] = "copy" /\ g # f) =>
              /\ IsPrefix(f.data, g.data)
              /\ wr'[u] = rd'[u]
              /\ wr'[u] = (offset[u] + 1)..Len(g.data)
              /\ \A i \in wr'[u] : g.data[i] = Src(u)[i]
        /\ pc[u] \in {"sleep", "verify"} => g = f
C25_OffsetIsPartLength == [][(op \in TransferOps) => C25_Step]_vars

\* The second attempt of a unit whose first attempt failed after its first
\* chunk had been written: it has started at 2 and moved the third byte.
C25_Witness ==
  \E u \in Units :
    /\ op \in TransferOps
    /\ ~part0[Dst(u)].ex
    /\ attempt[u] = 2
    /\ offset[u] = CHUNK_SIZE
    /\ rd[u] = {CHUNK_SIZE + 1}
    /\ wr[u] = {CHUNK_SIZE + 1}
    /\ part[Dst(u)] = File(Src(u))

\* C26: makedirs(path) calls mkdir for every ancestor of the directory the path
\* names, from the root down, and when it returns that directory exists (the
\* one in which the Prepare step's dst + ".part" is opened next), for absolute
\* and for relative paths.
Named(path) == (IF path.abs THEN <<>> ELSE Home) \o path.comps
C26_DirectoryExists ==
  (op = "makedirs" /\ mkd.state = "returned") =>
    /\ Named(mkd.path) \in mkd.dirs
    /\ \A n \in 1..Len(Named(mkd.path)) :
         \E k \in 1..Len(mkd.calls) : mkd.calls[k] = SubSeq(Named(mkd.path), 1, n)
           \/ SubSeq(Named(mkd.path), 1, n) = Home

\* C26 for absolute paths, which holds: one mkdir per ancestor, in order from
\* the root down, and the directory exists on return.
C26_Absolute ==
  (op = "makedirs" /\ mkd.state = "returned" /\ mkd.path.abs /\ mkd.path.comps # <<>>) =>
    /\ mkd.path.comps \in mkd.dirs
    /\ mkd.calls = [n \in 1..Len(mkd.path.comps) |-> SubSeq(mkd.path.comps, 1, n)]

\* C26, what the code does with a relative path: the directories it asks for
\* are those of the same components below the root.
C26_RelativeAtRoot ==
  (op = "makedirs" /\ mkd.state = "returned" /\ ~mkd.path.abs /\ mkd.path.comps # <<>>) =>
    /\ mkd.path.comps \in mkd.dirs
    /\ mkd.calls = [n \in 1..Len(mkd.path.comps) |-> SubSeq(mkd.path.comps, 1, n)]

\* C27: in each of the four commands of _remote_sha256 the path stands only in
\* its single-quote-escaped form, so that the remote shell, whatever the path
\* holds, takes it as part of one quoted argument: the tools get the path as
\* their last argument, python gets the program as the one argument of -c.
\* The words the POSIX shell makes of a command line: within single quotes
\* everything up to the next quote is literal; outside, a backslash makes the
\* next character literal and a space ends the word.
RECURSIVE Lex(_, _, _, _, _, _)
Lex(cmd, i, quoted, word, started, words) ==
  IF i > Len(cmd)
    THEN [words |-> IF started THEN Append(words, word) ELSE words, open |-> quoted]
  ELSE IF quoted
    THEN IF cmd[i] = "'" THEN Lex(cmd, i + 1, FALSE, word, TRUE, words)
         ELSE Lex(cmd, i + 1, TRUE, Append(word, cmd[i]), TRUE, words)
  ELSE IF cmd[i] = "'" THEN Lex(cmd, i + 1, TRUE, word, TRUE, words)
  ELSE IF cmd[i] = "\\" /\ i < Len(cmd)
    THEN Lex(cmd, i + 2, FALSE, Append(word, cmd[i + 1]), TRUE, words)
  ELSE IF cmd[i] = " "
    THEN Lex(cmd, i + 1, FALSE, <<>>, FALSE, IF started THEN Append(words, word) ELSE words)
  ELSE Lex(cmd, i + 1, FALSE, Append(word, cmd[i]), TRUE, words)
ShellWords(cmd) == Lex(cmd, 1, FALSE, <<>>, FALSE, <<>>)

Intended(n, path) ==
  CASE n = 1 -> << <<"sha256sum">>, <<"--">>, path >>
    [] n = 2 -> << <<"shasum">>, <<"-a">>, <<"256">>, <<"--">>, path >>
    [] n = 3 -> << <<"python3">>, <<"-c">>, py_code(path) >>
    [] n = 4 -> << <<"python">>, <<"-c">>, py_code(path) >>
C27_PathQuoted ==
  op = "commands" =>
    \A n \in 1..Len(cmdl.cmds) :
      /\ ~ShellWords(cmdl.cmds[n]).open
      /\ ShellWords(cmdl.cmds[n]).words = Intended(n, cmdl.path)

\* C27 for sha256sum and shasum, which holds.
C27_ToolsQuoted ==
  op = "commands" =>
    \A n \in 1..Len(cmdl.cmds) :
      n <= 2 =>
        /\ ~ShellWords(cmdl.cmds[n]).open
        /\ ShellWords(cmdl.cmds[n]).words = Intended(n, cmdl.path)

\* C27, the python commands: the path is outside the shell's quotes for every
\* path, so the program python gets is never the one that was built.
C27_PythonNeverQuoted ==
  op = "commands" =>
    \A n \in 1..Len(cmdl.cmds) :
      n >= 3 => ShellWords(cmdl.cmds[n]).words # Intended(n, cmdl.path)

\* C28: every non-directory event that on_any_event received is passed to
\* on_batch in the end, in the same call or a later one, also when no event
\* comes after it.
Delivered(k) == \E b \in 1..Len(watch.batches) : watch.batches[b].upto >= k
Waiting(k) ==
  /\ k <= Len(watch.events)
  /\ ~watch.events[k].is_directory
  /\ ~Delivered(k)
C28_EventuallyDelivered == \A k \in 1..MaxEvents : Waiting(k) ~> Delivered(k)

\* C28, why not: on_batch is called only in a step that receives an event;
\* the passing of time alone delivers nothing.
C28_Step ==
  watch'.batches # watch.batches => Len(watch'.events) = Len(watch.events) + 1
C28_OnlyEventsDeliver == [][(op = "watch") => C28_Step]_vars

\* C28 as a statement about states: once more than debounce_s has passed since
\* the last call of on_batch, no non-directory event is waiting.
C28_NoneWaitsPastDebounce ==
  (op = "watch" /\ watch.now - watch.last > DEBOUNCE_S) =>
    \A k \in 1..MaxEvents : ~Waiting(k)
\* C29: the retry loop written inline in the units is equivalent to
\* async_retry(retries=opts.retries, base_delay=opts.backoff) around one
\* attempt: whatever the attempts' outcomes, both make the same number of
\* attempts, sleep the same delays in the same order, and end with the result
\* or the error of the same attempt.  Both are looked at through the same
\* view: where the loop is, the attempts ended so far, the delays slept so far
\* and the result; every step of either loop leaves its view alone or is the
\* one step async_retry takes on the outcome of the attempt.
RetryView == [pc |-> r_pc, calls |-> r_calls, slept |-> r_slept, result |-> r_result]

InAttempt == {"open", "copy", "verify", "publish", "stat_dst"}
InLoop == {"prepare", "sleep", "done", "failed"} \cup InAttempt

UnitView(u) ==
  [pc |-> CASE pc[u] = "sleep" -> "sleep"
            [] pc[u] = "done" -> "returned"
            [] pc[u] = "failed" -> "raised"
            [] OTHER -> "call",
   calls |-> IF pc[u] \in InAttempt THEN attempt[u] - 1 ELSE attempt[u],
   slept |-> slept[u],
   result |-> CASE pc[u] = "done" -> Value(attempt[u])
                [] pc[u] = "failed" -> Error(attempt[u])
                [] OTHER -> NoResult]

FirstView == [pc |-> "call", calls |-> 0, slept |-> <<>>, result |-> NoResult]

\* The views one step of async_retry leads to from the view v.
RetrySteps(v) ==
  CASE v.pc = "call" ->
         {[pc |-> "returned", calls |-> v.calls + 1, slept |-> v.slept,
           result |-> Value(v.calls + 1)],
          IF v.calls + 1 > opts.retries
            THEN [pc |-> "raised", calls |-> v.calls + 1, slept |-> v.slept,
                  result |-> Error(v.calls + 1)]
            ELSE [pc |-> "sleep", calls |-> v.calls + 1,
                  slept |-> Append(v.slept,
                                   Min(opts.backoff * Pow2(v.calls), MAX_DELAY)),
                  result |-> NoResult]}
    [] v.pc = "sleep" -> {[v EXCEPT !.pc = "call"]}
    [] OTHER -> {}

C29_Step ==
  /\ op = "async_retry" =>
       \/ RetryView' = RetryView
       \/ RetryView' \in RetrySteps(RetryView)
  /\ op \in TransferOps =>
       \A u \in Units :
         /\ (pc[u] \notin InLoop /\ pc'[u] = "prepare") => UnitView(u)' = FirstView
         /\ (pc[u] \in InLoop /\ pc'[u] # "cancelled") =>
              \/ UnitView(u)' = UnitView(u)
              \/ UnitView(u)' \in RetrySteps(UnitView(u))
C30_UnitsEnd == \A u \in 1..MaxUnits : <>(u \in Units => pc[u] \in {"done", "failed"})
C30_Terminates ==
  (opts.parallel >= 1 /\ opts.retries >= 0) =>
    /\ C30_UnitsEnd
    /\ (mainpc = "acquire") ~> (mainpc # "acquire")
    /\ <>(mainpc \in {"returned", "raised"})

\* C30 without its first part: the loop never waits forever and the method
\* returns or raises; every unit ends, Done, Failed or cancelled.
C30_MethodEnds ==
  /\ \A u \in 1..MaxUnits : <>(u \in Units => pc[u] \in Terminal)
  /\ (mainpc = "acquire") ~> (mainpc # "acquire")
  /\ <>(mainpc \in {"returned", "raised"})

\* C30: the units that do not end Done or Failed are the ones cancelled after
\* the method raised.
C30_OnlyCancelledAfterRaise ==
  op \in TransferOps =>
    \A u \in Units : pc[u] = "cancelled" => mainpc = "raised"
\* C31: send, get and relay return only when every unit is Done, and then
\* stats.files is the number of pairs; when a unit has ended Failed the method
\* does not return: it raises for the earliest submitted unit that failed,
\* every unit submitted before that one being Done.
C31_ReturnsOnlyAllDone ==
  op \in TransferOps =>
    /\ mainpc = "returned" =>
         /\ \A u \in Units : pc[u] = "done"
         /\ stats.files = Len(files)
    /\ (\E u \in Units : pc[u] = "failed") => mainpc # "returned"
    /\ mainpc = "raised" =>
         /\ pc[awaiting] = "failed"
         /\ \A u \in Units : u < awaiting => pc[u] = "done"

\* C31: the method has raised for the second unit, the first one is Done and
\* counted.
C31_Witness ==
  /\ op \in TransferOps
  /\ mainpc = "raised"
  /\ awaiting = 2
  /\ pc[1] = "done"
  /\ stats.files = 1

\* C31, under a fair loop: once a unit has ended Failed the method raises.
C31_FailedRaises ==
  (\E u \in Units : pc[u] = "failed") ~> (mainpc = "raised")
====
